---- MODULE Spec2Model ----
(***************************************************************************)
(* Session / context lifecycle manager of the janitor skill:               *)
(*   SessionMonitor, SessionPruner, SessionArchiver, EmergencyCleanup,     *)
(*   ContextWatcher and the Janitor facade that wires them together.       *)
(*   Also SessionAnalyzer (analyzeSession and its cache) and the           *)
(*   pre-start-cleanup.sh script, each under a specification of its own.   *)
(*                                                                         *)
(* Time is counted in whole hours since the epoch; a calendar day is 24    *)
(* hours (Date.toISOString works in UTC).  A session file is a record      *)
(* [content, mtime]; a content is a record [messages, chars] standing for  *)
(* the parsed JSON document (number of messages, total payload length).    *)
(* Utilization percentages are carried in hundredths of a percent, which   *)
(* is the precision getContextUsage rounds to.                             *)
(***************************************************************************)
EXTENDS Integers, Sequences, FiniteSets, TLC

VARIABLES
    sessions,       \* the live session directory: id -> [content, mtime]
    now,            \* the clock, in hours
    archiveDir,     \* the archive directory: bundle name -> (file id -> content)
    index,          \* index.json: the sequence of archive descriptors
    compression,    \* SessionArchiver config.compression
    lastOp,         \* what the most recent cleanup operation archived and unlinked
    evicted,        \* every [id, content] a cleanup operation has unlinked so far
    restoreResult,  \* arguments and return value of the most recent restore()
    budget,         \* operations left to explore
    isRunning,      \* ContextWatcher.isRunning
    intervalId,     \* ContextWatcher.intervalId (0 stands for null)
    timers,         \* the interval timers active in the event loop
    inFlight,       \* _performCheck invocations begun and not yet completed
    checkCount,     \* ContextWatcher.checkCount
    cleanupCount,   \* ContextWatcher.cleanupCount
    watcherConfig,  \* ContextWatcher.config (enabled, intervalMinutes, autoCleanup)
    lastCall,       \* the most recent start/stop/updateConfig call
    prunerCalls,    \* the direct SessionPruner.prune / dryRun calls made so far
    janitor,        \* the configuration a Janitor was asked for and what was built
    pendingClean,   \* a cleanContext call that has made its selection and not yet archived
    lastCheck,      \* what the most recent _performCheck measured and triggered
    lastQuery,      \* the most recent call of a reporting or maintenance method and its answer
    analysisCache,  \* SessionAnalyzer.analysisCache, in insertion order
    pendingAnalyses \* analyzeSession calls past the cache lookup, awaiting the file read

fsVars == <<sessions, now, archiveDir, index, compression, lastOp, evicted,
            restoreResult, budget>>
watcherVars == <<isRunning, intervalId, timers, inFlight, watcherConfig, lastCall>>
counterVars == <<checkCount, cleanupCount>>
queryVars == <<pendingClean, lastCheck, lastQuery>>
analyzerVars == <<analysisCache, pendingAnalyses>>
apiVars == <<prunerCalls, janitor, queryVars, analyzerVars>>
vars == <<fsVars, watcherVars, counterVars, apiVars>>

----------------------------------------------------------------------------
(* Bounds of the model *)

MaxSessions == 3          \* session ids 1..MaxSessions
MaxOps == 2               \* operations explored per behaviour
MaxRetentionOps == 5      \* archiver calls and passages of time per behaviour
MaxScanOps == 3           \* scans, ticks and session writes per behaviour
MaxAnalyzerOps == 4       \* analyzeSession calls and session writes per behaviour
MaxScriptOps == 2         \* script runs and session writes per behaviour
MaxDayAdvances == 1       \* midnights crossed per behaviour
MaxTimers == 2            \* interval timers alive at once
MaxInFlight == 2          \* overlapping _performCheck invocations
MaxChecks == 3            \* ticks counted per behaviour

SessionIds == 1..MaxSessions

----------------------------------------------------------------------------
(* Program constants: the defaults, as the Janitor constructor wires them *)

maxTokens == 200000
alertThreshold == 80
emergencyThreshold == 95
maxSessionAge == 7
Pruner_keepRecentHours == 24
minMessagesForImportant == 10
Emergency_keepRecentHours == 24
Emergency_keepMinimumSessions == 3
retentionDays == 30
CharsPerToken == 4
HoursPerDay == 24
StartHour == 100 * HoursPerDay     \* the clock at Init: midnight of day 100

----------------------------------------------------------------------------
(* Session contents and the files found in the directory *)

\* a short conversation (20,000 tokens) and a long one (70,000 tokens)
ContentChoices ==
    { [messages |-> 2, chars |-> 80000],
      [messages |-> 4, chars |-> 280000] }

AgeChoices == {1, 200}     \* hours: recent, and older than a week

Min(a, b) == IF a < b THEN a ELSE b
Max(a, b) == IF a > b THEN a ELSE b

EmptyDir == [x \in {} |-> 0]

\* Math.ceil(n * pct / 100)
CeilFrac(n, pct) == (n * pct + 99) \div 100

\* The elements of S in the order given by the strict total order Before.
SortedSeq(S, Before(_, _)) ==
    [i \in 1..Cardinality(S) |->
        CHOOSE x \in S : Cardinality({y \in S : Before(y, x)}) = i - 1]

\* Array.prototype.slice(0, k), as the set of the elements kept.
Slice(seq, k) == {seq[i] : i \in 1..Min(k, Len(seq))}

RECURSIVE SumOver(_, _)
SumOver(S, f) ==
    IF S = {} THEN 0
    ELSE LET x == CHOOSE y \in S : TRUE
         IN  f[x] + SumOver(S \ {x}, f)

----------------------------------------------------------------------------
(* SessionMonitor *)

\* Math.ceil(totalChars / 4)
countSessionTokens(content) == (content.chars + CharsPerToken - 1) \div CharsPerToken

getMessageCount(content) == content.messages

calculatePriority(messages, ageHours) ==
    IF ageHours < 24 /\ messages > 10 THEN "high"
    ELSE IF ageHours < 168 \/ messages > 5 THEN "medium"
    ELSE "low"

SessionInfo(dir, t, id) ==
    [sessionId    |-> id,
     tokenCount   |-> countSessionTokens(dir[id].content),
     messageCount |-> getMessageCount(dir[id].content),
     lastActive   |-> dir[id].mtime,
     priority     |-> calculatePriority(getMessageCount(dir[id].content),
                                        t - dir[id].mtime)]

\* sessionInfo.sort((a, b) => b.tokenCount - a.tokenCount): the sort is stable,
\* so equal token counts stay in readdir order, taken here as ascending id.
UsageBefore(a, b) ==
    \/ a.tokenCount > b.tokenCount
    \/ a.tokenCount = b.tokenCount /\ a.sessionId < b.sessionId

\* Math.round(utilizationPercent * 100) / 100, utilizationPercent = total / maxTokens * 100,
\* in hundredths; maxTokens is a multiple of 10000, so one hundredth of a percent
\* is a whole number of tokens (and the products stay within 32 bits).
TokensPerHundredth == maxTokens \div 10000
UtilizationHundredths(total) ==
    (2 * total + TokensPerHundredth) \div (2 * TokensPerHundredth)

\* _getStatus works on the unrounded percentage.
getStatus(total) ==
    IF total * 100 >= emergencyThreshold * maxTokens THEN "CRITICAL"
    ELSE IF total * 100 >= alertThreshold * maxTokens THEN "WARNING"
    ELSE IF total * 100 >= 60 * maxTokens THEN "MODERATE"
    ELSE "OK"

getContextUsage(dir, t) ==
    LET infos == {SessionInfo(dir, t, id) : id \in DOMAIN dir}
        total == SumOver(DOMAIN dir,
                         [id \in DOMAIN dir |-> countSessionTokens(dir[id].content)])
    IN  [currentTokens      |-> total,
         utilizationPercent |-> UtilizationHundredths(total),
         sessions           |-> SortedSeq(infos, UsageBefore),
         status             |-> getStatus(total)]

SeqRange(seq) == {seq[i] : i \in 1..Len(seq)}
IdsOf(infos) == {s.sessionId : s \in infos}

\* stats.size of a session file: at least the characters of its messages (the
\* JSON around them is left out).
statSize(file) == file.content.chars

\* getAllSessions when stat fails for the files of unstatable: the loop over
\* readdir (ascending id) sits in one try, so the first failure ends it and the
\* files after it are not listed.
getAllSessions(dir, unstatable) ==
    {id \in DOMAIN dir : \A j \in unstatable \cap DOMAIN dir : id < j}

\* countSessionTokens when readFile or JSON.parse fails: Math.ceil(stats.size / 4)
countSessionTokens_fallback(file) ==
    (statSize(file) + CharsPerToken - 1) \div CharsPerToken

\* A monitor that answers from its stored currentUsage for the session ids it
\* has seen before.
scanUsage_cached(dir, t, unreadable, unstatable) ==
    LET listed == getAllSessions(dir, unstatable)
        known == IF lastQuery.op = "getContextUsage"
                 THEN SeqRange(lastQuery.usage.sessions) ELSE {}
        tokens == [id \in listed |->
                      IF id \in IdsOf(known)
                      THEN (CHOOSE s \in known : s.sessionId = id).tokenCount
                      ELSE countSessionTokens(dir[id].content)]
        infos == {[sessionId    |-> id,
                   tokenCount   |-> tokens[id],
                   messageCount |-> getMessageCount(dir[id].content),
                   lastActive   |-> dir[id].mtime,
                   priority     |-> calculatePriority(getMessageCount(dir[id].content),
                                                      t - dir[id].mtime)] :
                  id \in listed}
        total == SumOver(listed, tokens)
    IN  [currentTokens      |-> total,
         utilizationPercent |-> UtilizationHundredths(total),
         sessions           |-> SortedSeq(infos, UsageBefore),
         status             |-> getStatus(total)]

\* getContextUsage over a directory in which the files of unreadable cannot be
\* read or parsed and the files of unstatable cannot be stat'ed.
scanUsage(dir, t, unreadable, unstatable) ==
    LET listed == getAllSessions(dir, unstatable)
        tokens == [id \in listed |->
                      IF id \in unreadable THEN countSessionTokens_fallback(dir[id])
                      ELSE countSessionTokens(dir[id].content)]
        messages == [id \in listed |->
                        IF id \in unreadable THEN 0
                        ELSE getMessageCount(dir[id].content)]
        infos == {[sessionId    |-> id,
                   tokenCount   |-> tokens[id],
                   messageCount |-> messages[id],
                   lastActive   |-> dir[id].mtime,
                   priority     |-> calculatePriority(messages[id], t - dir[id].mtime)] :
                  id \in listed}
        total == SumOver(listed, tokens)
    IN  [currentTokens      |-> total,
         utilizationPercent |-> UtilizationHundredths(total),
         sessions           |-> SortedSeq(infos, UsageBefore),
         status             |-> getStatus(total)]

----------------------------------------------------------------------------
(* SessionPruner *)

AgeHours(s, t) == t - s.lastActive

Pruner_isProtected(s, t) ==
    \/ AgeHours(s, t) < Pruner_keepRecentHours
    \/ s.messageCount >= minMessagesForImportant

\* _conservativePrune with the keep-recent window in the place of maxSessionAge
conservativePrune_recentWindow(S, t) ==
    {s \in S : AgeHours(s, t) > Pruner_keepRecentHours}

\* age > maxSessionAge * 24 * 60 * 60 * 1000, in hours
conservativePrune(S, t) ==
    {s \in S : AgeHours(s, t) > maxSessionAge * HoursPerDay}

\* _calculatePruneScore, times 1000 to stay in the integers
calculatePruneScore(s, t) ==
    400 * Max(0, 100 - AgeHours(s, t))
    + 300 * Min(100, s.messageCount * 5)
    + Min(20000, 2 * s.tokenCount)
    + (IF s.priority = "high" THEN 50000 ELSE 0)
    + (IF s.priority = "medium" THEN 25000 ELSE 0)

\* _sortByPruneScore: ascending score; the stable sort keeps the usage order on ties
sortByPruneScore(S, t) ==
    SortedSeq(S, LAMBDA a, b :
        \/ calculatePruneScore(a, t) < calculatePruneScore(b, t)
        \/ calculatePruneScore(a, t) = calculatePruneScore(b, t) /\ UsageBefore(a, b))

moderatePrune(S, util, t) ==
    conservativePrune(S, t) \cup
        (IF util > 8000
         THEN Slice(sortByPruneScore(S, t), CeilFrac(Cardinality(S), 25))
         ELSE {})

aggressivePrune(S, util, t) ==
    LET prunePercent == IF util > 9500 THEN 70
                        ELSE IF util > 9000 THEN 50
                        ELSE IF util > 8000 THEN 35
                        ELSE 25
    IN  Slice(sortByPruneScore(S, t), CeilFrac(Cardinality(S), prunePercent))

emergencyPrune(S, t) ==
    {s \in S : AgeHours(s, t) > Pruner_keepRecentHours}

Strategies == {"conservative", "moderate", "aggressive", "emergency"}

\* _selectPruneTargets without its filter on _isProtected
selectPruneTargets_unfiltered(infos, strategy, util, t) ==
    IF infos = {} THEN {}
    ELSE CASE strategy = "conservative" -> conservativePrune(infos, t)
           [] strategy = "moderate"     -> moderatePrune(infos, util, t)
           [] strategy = "aggressive"   -> aggressivePrune(infos, util, t)
           [] strategy = "emergency"    -> emergencyPrune(infos, t)
           [] OTHER                     -> moderatePrune(infos, util, t)

\* The sessions (usage records) the strategy selects.
selectPruneTargets(infos, strategy, util, t) ==
    LET prunableSessions == {s \in infos : ~Pruner_isProtected(s, t)}
    IN  IF prunableSessions = {} THEN {}
        ELSE CASE strategy = "conservative" -> conservativePrune(prunableSessions, t)
               [] strategy = "moderate"     -> moderatePrune(prunableSessions, util, t)
               [] strategy = "aggressive"   -> aggressivePrune(prunableSessions, util, t)
               [] strategy = "emergency"    -> emergencyPrune(prunableSessions, t)
               [] OTHER                     -> moderatePrune(prunableSessions, util, t)

\* A getRecommendedStrategy whose breakpoints are exclusive.
getRecommendedStrategy_exclusive(util) ==
    IF util > 95 * 100 THEN "emergency"
    ELSE IF util > 85 * 100 THEN "aggressive"
    ELSE IF util > 75 * 100 THEN "moderate"
    ELSE "conservative"

getRecommendedStrategy(util) ==
    IF util >= 9500 THEN "emergency"
    ELSE IF util >= 8500 THEN "aggressive"
    ELSE IF util >= 7500 THEN "moderate"
    ELSE "conservative"

\* A prune whose loop has no try around the unlink: the first failure (targets
\* taken in ascending id) ends the batch.
prune_abortsOnError(dir, t, strategy, undeletable) ==
    LET usage == getContextUsage(dir, t)
        targets == IdsOf(selectPruneTargets(SeqRange(usage.sessions), strategy,
                                            usage.utilizationPercent, t))
    IN  {id \in targets : \A bad \in targets \cap undeletable : id < bad}

\* prune(strategy): the ids unlinked; unlink fails for the ids in undeletable,
\* which is logged and skipped.
prune(dir, t, strategy, undeletable) ==
    LET usage == getContextUsage(dir, t)
        pruneTargets == selectPruneTargets(SeqRange(usage.sessions), strategy,
                                           usage.utilizationPercent, t)
    IN  IdsOf(pruneTargets) \ undeletable

\* dryRun that hands _selectPruneTargets no utilization
dryRun_ignoresUtilization(dir, t, strategy) ==
    LET usage == getContextUsage(dir, t)
    IN  IdsOf(selectPruneTargets(SeqRange(usage.sessions), strategy, 0, t))

\* dryRun(strategy): the ids listed in the preview
\* results.sessionsPruned and results.tokensFreed of prune(strategy): both are
\* advanced after the unlink of a session has succeeded.
prune_results(dir, t, strategy, undeletable) ==
    LET pruned == prune(dir, t, strategy, undeletable)
    IN  [sessionsPruned |-> Cardinality(pruned),
         tokensFreed |-> SumOver(pruned,
                            [id \in pruned |-> countSessionTokens(dir[id].content)])]

dryRun(dir, t, strategy) ==
    LET usage == getContextUsage(dir, t)
    IN  IdsOf(selectPruneTargets(SeqRange(usage.sessions), strategy,
                                 usage.utilizationPercent, t))

\* an unlink that reports success and removes nothing
Unlink_keepsFiles(dir, ids) == dir

Unlink(dir, ids) == [id \in DOMAIN dir \ ids |-> dir[id]]

----------------------------------------------------------------------------
(* SessionArchiver *)

\* `sessions-${timestamp}.tar.gz`, timestamp the UTC date; the record
\* [day, targz] stands for "sessions-<day>.tar.gz" (targz) or "sessions-<day>".
getTimestamp(t) == t \div HoursPerDay
TarGzName(day) == [day |-> day, targz |-> TRUE]
NullName == [day |-> -1, targz |-> TRUE]

\* targetPath.replace('.tar.gz', '')
StripTarGz(name) == [name EXCEPT !.targz = FALSE]

\* archiveName.endsWith('.tar.gz')
EndsWithTarGz(name) == name.targz

\* tar -czf writes the target file anew.
createTarGz(adir, files, name) ==
    [n \in DOMAIN adir \cup {name} |-> IF n = name THEN files ELSE adir[n]]

\* mkdir(recursive) and copyFile of each file into the directory, which keeps
\* whatever files it already held under other names.
createDirectory(adir, files, name) ==
    LET archiveDirName == StripTarGz(name)
        old == IF archiveDirName \in DOMAIN adir THEN adir[archiveDirName] ELSE EmptyDir
        merged == [f \in DOMAIN old \cup DOMAIN files |->
                      IF f \in DOMAIN files THEN files[f] ELSE old[f]]
    IN  [n \in DOMAIN adir \cup {archiveDirName} |->
            IF n = archiveDirName THEN merged ELSE adir[n]]

\* _loadIndex(): the archives of index.json, and an empty list when the file
\* cannot be read or parsed (fault "indexRead").
loadIndex(idx, fault) == IF fault = "indexRead" THEN <<>> ELSE idx

\* index.archives.push(archiveInfo)
updateIndex(idx, archiveInfo) == Append(idx, archiveInfo)

ArchiveFaults == {"none", "copy", "compress", "index"}

\* index.archives.filter(a => a.archiveName !== name)
RECURSIVE withoutName(_, _)
withoutName(idx, name) ==
    IF idx = <<>> THEN <<>>
    ELSE IF Head(idx).archiveName = name THEN withoutName(Tail(idx), name)
    ELSE <<Head(idx)>> \o withoutName(Tail(idx), name)

\* the archives of the index with age > maxAgeMs, in index order
RECURSIVE olderThanRetention(_, _)
olderThanRetention(idx, t) ==
    IF idx = <<>> THEN <<>>
    ELSE IF t - Head(idx).timestamp > retentionDays * HoursPerDay
         THEN <<Head(idx)>> \o olderThanRetention(Tail(idx), t)
         ELSE olderThanRetention(Tail(idx), t)

\* The deletion loop of cleanupOldArchives: for each archive of toDelete,
\* when archivePath/<archiveName> exists, unlink it (the name ends in .tar.gz)
\* or remove the directory, and count it; then filter the index by the name.
RECURSIVE deleteArchives(_, _, _, _)
deleteArchives(toDelete, adir, idx, deletedCount) ==
    IF toDelete = <<>>
    THEN [archiveDir |-> adir, index |-> idx, deleted |-> deletedCount]
    ELSE LET name == Head(toDelete).archiveName
             exists == name \in DOMAIN adir
         IN  deleteArchives(Tail(toDelete),
                            [n \in DOMAIN adir \ {name} |-> adir[n]],
                            withoutName(idx, name),
                            IF exists THEN deletedCount + 1 ELSE deletedCount)

\* cleanupOldArchives()
cleanupOldArchives(adir, idx, t) ==
    deleteArchives(olderThanRetention(idx, t), adir, idx, 0)

\* archiveSessions(sessions, reason): infos are the usage records handed in,
\* dir the session directory they are copied from; fault names the step that
\* fails, if any; copyFile also fails (ENOENT) when a file handed in is no
\* longer in the directory.  The result carries the archive directory and the
\* index as the call leaves them.
archiveSessions(adir, idx, dir, infos, reason, t, comp, fault) ==
    LET archiveName == TarGzName(getTimestamp(t))
        files == [id \in IdsOf(infos) |-> dir[id].content]
        written == IF comp THEN createTarGz(adir, files, archiveName)
                   ELSE createDirectory(adir, files, archiveName)
        archiveInfo == [archiveName  |-> archiveName,
                        timestamp    |-> t,
                        sessionCount |-> Cardinality(infos),
                        reason       |-> reason,
                        sessions     |-> {[id       |-> s.sessionId,
                                           tokens   |-> s.tokenCount,
                                           messages |-> s.messageCount] : s \in infos}]
    IN  IF infos = {}
        THEN [threw |-> FALSE, archived |-> 0, archiveName |-> NullName,
              files |-> EmptyDir, archiveDir |-> adir, index |-> idx]
        ELSE IF fault \in {"copy", "compress"} \/ ~(IdsOf(infos) \subseteq DOMAIN dir)
        THEN [threw |-> TRUE, archived |-> 0, archiveName |-> NullName,
              files |-> EmptyDir, archiveDir |-> adir, index |-> idx]
        ELSE IF fault = "index"
        THEN [threw |-> TRUE, archived |-> 0, archiveName |-> NullName,
              files |-> EmptyDir, archiveDir |-> written, index |-> idx]
        ELSE [threw |-> FALSE, archived |-> Cardinality(infos),
              archiveName |-> archiveName, files |-> files,
              archiveDir |-> written,
              index |-> updateIndex(loadIndex(idx, fault), archiveInfo)]

\* The copy loop without its existsSync test: every file of the bundle is copied.
restoreCopy_overwrites(bundle, target, t) ==
    [f \in DOMAIN target \cup DOMAIN bundle |->
        IF f \in DOMAIN bundle THEN [content |-> bundle[f], mtime |-> t]
        ELSE target[f]]

\* The copy loop of restore(): a file is copied unless the target holds its
\* name; copyFile writes a new file, whose mtime is the time of the copy.
restoreCopy(bundle, target, t) ==
    [f \in DOMAIN target \cup DOMAIN bundle |->
        IF f \in DOMAIN target THEN target[f]
        ELSE [content |-> bundle[f], mtime |-> t]]

\* "io": the extraction, or the first copy, fails and restore() throws
RestoreFaults == {"none", "io"}

\* restore(archiveName, targetPath): the return value and the target directory
\* as the call leaves it.
restore(adir, archiveName, target, t, fault) ==
    IF archiveName \notin DOMAIN adir
    THEN [outcome |-> "notfound", restored |-> 0, skipped |-> 0, target |-> target]
    ELSE IF fault = "io"
    THEN [outcome |-> "failed", restored |-> 0, skipped |-> 0, target |-> target]
    ELSE LET bundle == adir[archiveName]
             restoredCount == Cardinality(DOMAIN bundle \ DOMAIN target)
         IN  [outcome  |-> "ok",
              restored |-> restoredCount,
              skipped  |-> Cardinality(DOMAIN bundle) - restoredCount,
              target   |-> restoreCopy(bundle, target, t)]

----------------------------------------------------------------------------
(* The record a cleanup operation leaves in lastOp *)

\* What the caller of a cleanup holds when it is over: returned is FALSE when
\* the call threw or resolved to undefined; the has* fields say which parts of
\* the result object are there.
NoReport ==
    [returned |-> FALSE, success |-> FALSE, error |-> FALSE, hasCounts |-> FALSE,
     hasBefore |-> FALSE, hasAfter |-> FALSE, hasDuration |-> FALSE]

NoOp ==
    [kind |-> "none", archiveThrew |-> FALSE, archiveName |-> NullName,
     archivedFiles |-> EmptyDir, deleted |-> {}, unlinkErrors |-> 0,
     tokensFreed |-> 0, liveBefore |-> 0, liveAfter |-> 0, report |-> NoReport]

NoRestore ==
    [archiveName |-> NullName, target |-> "none", outcome |-> "none",
     restored |-> 0, skipped |-> 0, bundleSize |-> 0, files |-> EmptyDir]

TokensOf(dir, ids) ==
    SumOver(ids, [id \in ids |-> countSessionTokens(dir[id].content)])

\* What a cleanup made of one archiveSessions call and the unlinks after it did:
\* the state it leaves and its record.
Outcome(kind, dir, arch, unlinked, failedUnlinks) ==
    [sessions   |-> Unlink(dir, unlinked),
     archiveDir |-> arch.archiveDir,
     index      |-> arch.index,
     op |-> [kind          |-> kind,
             archiveThrew  |-> arch.threw,
             archiveName   |-> arch.archiveName,
             archivedFiles |-> arch.files,
             deleted       |-> unlinked,
             unlinkErrors  |-> Cardinality(failedUnlinks),
             tokensFreed   |-> TokensOf(dir, unlinked),
             liveBefore    |-> Cardinality(DOMAIN dir),
             liveAfter     |-> Cardinality(DOMAIN dir \ unlinked),
             report        |-> NoReport]]

----------------------------------------------------------------------------
(* EmergencyCleanup *)

\* Step 2 of execute(): the sessions younger than keepRecentHours, most recent
\* first, cut to keepMinimumSessions.
sessionsToKeep(infos, t) ==
    Slice(SortedSeq({s \in infos : AgeHours(s, t) < Emergency_keepRecentHours},
                    LAMBDA a, b : \/ a.lastActive > b.lastActive
                                  \/ a.lastActive = b.lastActive /\ UsageBefore(a, b)),
          Emergency_keepMinimumSessions)

\* The archive step and the deletion loop of execute(): archive every session;
\* when that threw, delete nothing; otherwise unlink every session that is not
\* in sessionsToKeep.
Emergency_steps(dir, t, adir, idx, comp, fault, undeletable) ==
    LET beforeUsage == getContextUsage(dir, t)
        infos == SeqRange(beforeUsage.sessions)
        arch == archiveSessions(adir, idx, dir, infos, "emergency-cleanup", t, comp, fault)
        keep == IdsOf(sessionsToKeep(infos, t))
        toDelete == IdsOf(infos) \ keep
    IN  IF arch.threw
        THEN Outcome("emergency", dir, arch, {}, {})
        ELSE Outcome("emergency", dir, arch, toDelete \ undeletable,
                     toDelete \cap undeletable)

\* result.success: the utilization execute() measures when it is done is
\* under the emergency threshold.
Emergency_success(dirAfter, t) ==
    getContextUsage(dirAfter, t).utilizationPercent < emergencyThreshold * 100

\* generateReport(result) reads result.afterUsage.percent and the archive
\* action's archiveName.substring: a TypeError when execute() stopped before
\* afterUsage was set, or when archiveSessions got no sessions and answered
\* without an archiveName.
generateReport_throws(op) ==
    op.archiveThrew \/ op.archiveName = NullName

\* execute() with a catch that leaves result.success as it was measured.
Emergency_result_successOnError(op, dirAfter, t) ==
    [returned |-> TRUE,
     success |-> ~op.archiveThrew /\ Emergency_success(dirAfter, t),
     error |-> generateReport_throws(op), hasCounts |-> ~op.archiveThrew,
     hasBefore |-> TRUE, hasAfter |-> ~op.archiveThrew,
     hasDuration |-> ~op.archiveThrew]

\* The result object execute() returns. An archive that threw lands in the
\* catch before the prune action, afterUsage and duration exist; a
\* generateReport that threw inside _sendNotification lands there after them.
Emergency_result(op, dirAfter, t) ==
    IF op.archiveThrew
    THEN [returned |-> TRUE, success |-> FALSE, error |-> TRUE, hasCounts |-> FALSE,
          hasBefore |-> TRUE, hasAfter |-> FALSE, hasDuration |-> FALSE]
    ELSE [returned |-> TRUE,
          success |-> IF generateReport_throws(op) THEN FALSE
                      ELSE Emergency_success(dirAfter, t),
          error |-> generateReport_throws(op), hasCounts |-> TRUE,
          hasBefore |-> TRUE, hasAfter |-> TRUE, hasDuration |-> TRUE]

\* execute()
Emergency_execute(dir, t, adir, idx, comp, fault, undeletable) ==
    LET out == Emergency_steps(dir, t, adir, idx, comp, fault, undeletable)
    IN  [out EXCEPT !.op.report = Emergency_result(out.op, out.sessions, t)]

\* Janitor.emergencyClean(): execute(), then console.log(generateReport(result))
\* outside any try, so the caller gets the result only when the report can be
\* printed.
Janitor_emergencyClean(dir, t, adir, idx, comp, fault, undeletable) ==
    LET out == Emergency_execute(dir, t, adir, idx, comp, fault, undeletable)
    IN  [out EXCEPT !.op.report.returned = ~generateReport_throws(out.op)]

----------------------------------------------------------------------------
(* ContextWatcher: the cleanup a tick triggers *)

Watcher_isProtected(s, t) ==
    \/ AgeHours(s, t) < 24
    \/ s.messageCount >= 10
    \/ s.priority = "high"

\* The sessions _triggerRoutineCleanup hands to the archiver: the oldest
\* quarter, third or half of the sessions the watcher does not protect.
Watcher_toPrune(infos, util, t) ==
    LET sessionsToPrune ==
            SortedSeq({s \in infos : ~Watcher_isProtected(s, t)},
                      LAMBDA a, b : \/ a.lastActive < b.lastActive
                                    \/ a.lastActive = b.lastActive /\ UsageBefore(a, b))
        n == Len(sessionsToPrune)
        pruneCount == IF util > 9000 THEN CeilFrac(n, 50)
                      ELSE IF util > 8500 THEN CeilFrac(n, 35)
                      ELSE CeilFrac(n, 25)
    IN  Slice(sessionsToPrune, pruneCount)

\* _triggerRoutineCleanup(utilizationPercent): archive toPrune, then
\* pruner.prune(strategy); an archive that threw ends the cleanup.
triggerRoutineCleanup(dir, t, util, adir, idx, comp, fault, undeletable) ==
    LET strategy == getRecommendedStrategy(util)
        usage == getContextUsage(dir, t)
        toPrune == Watcher_toPrune(SeqRange(usage.sessions), util, t)
        arch == archiveSessions(adir, idx, dir, toPrune, "auto-cleanup", t, comp, fault)
        targets == dryRun(dir, t, strategy)
    IN  IF toPrune = {} \/ arch.threw
        THEN Outcome("routine", dir, arch, {}, {})
        ELSE Outcome("routine", dir, arch, prune(dir, t, strategy, undeletable),
                     targets \cap undeletable)

\* Whether the routine cleanup got as far as cleanupCount++.
routineCompleted(dir, t, util, fault) ==
    LET usage == getContextUsage(dir, t)
    IN  Watcher_toPrune(SeqRange(usage.sessions), util, t) # {} /\ fault = "none"

----------------------------------------------------------------------------
(* Janitor *)

\* cleanContext with the archive call wrapped in a try/catch that logs and goes on
cleanContext_swallowsArchiveError(dir, t, strategy, adir, idx, comp, fault, undeletable) ==
    LET beforeUsage == getContextUsage(dir, t)
        preview == dryRun(dir, t, strategy)
        sessionsToPrune == {s \in SeqRange(beforeUsage.sessions) : s.sessionId \in preview}
        arch == archiveSessions(adir, idx, dir, sessionsToPrune, "manual-cleanup",
                                t, comp, fault)
    IN  Outcome("manual", dir, arch, prune(dir, t, strategy, undeletable),
                preview \cap undeletable)

\* cleanContext(strategy): archive the sessions the dry run lists, when there
\* are any, then pruner.prune(strategy); an archive that threw propagates.
\* beforeUsage.sessions filtered by the dry run's list
sessionsToPrune(dir, t, strategy) ==
    LET beforeUsage == getContextUsage(dir, t)
        preview == dryRun(dir, t, strategy)
    IN  {s \in SeqRange(beforeUsage.sessions) : s.sessionId \in preview}

\* The rest of cleanContext once the selection is made: archive it when it is
\* not empty, then pruner.prune(strategy), which measures the directory anew.
cleanContext_finish(dir, t, strategy, selected, adir, idx, comp, fault, undeletable) ==
    LET arch == archiveSessions(adir, idx, dir, selected, "manual-cleanup",
                                t, comp, fault)
    IN  IF arch.threw
        THEN Outcome("manual", dir, arch, {}, {})
        ELSE Outcome("manual", dir, arch, prune(dir, t, strategy, undeletable),
                     dryRun(dir, t, strategy) \cap undeletable)

cleanContext_steps(dir, t, strategy, adir, idx, comp, fault, undeletable) ==
    cleanContext_finish(dir, t, strategy, sessionsToPrune(dir, t, strategy),
                        adir, idx, comp, fault, undeletable)

\* What cleanContext returns: {before, after, pruned, tokensFreed}, and
\* nothing when the archive threw.
cleanContext_result(op) ==
    [returned |-> ~op.archiveThrew, success |-> FALSE, error |-> op.archiveThrew,
     hasCounts |-> ~op.archiveThrew, hasBefore |-> ~op.archiveThrew,
     hasAfter |-> ~op.archiveThrew, hasDuration |-> FALSE]

cleanContext(dir, t, strategy, adir, idx, comp, fault, undeletable) ==
    LET out == cleanContext_steps(dir, t, strategy, adir, idx, comp, fault, undeletable)
    IN  [out EXCEPT !.op.report = cleanContext_result(out.op)]

----------------------------------------------------------------------------
(* The state after construction *)

FileChoices == [content : ContentChoices, mtime : {StartHour - a : a \in AgeChoices}]
DirChoices == [SessionIds -> FileChoices]

\* The I/O faults of one cleanup operation: a step of archiveSessions fails, or
\* unlink fails for one session, or nothing fails.
Faults ==
    {[archive |-> f, undeletable |-> {}] : f \in ArchiveFaults}
        \cup {[archive |-> "none", undeletable |-> {id}] : id \in SessionIds}

NoCall == [op |-> "none", wasRunning |-> FALSE, restarted |-> FALSE]

WatcherInit ==
    /\ isRunning = FALSE
    /\ intervalId = 0
    /\ timers = {}
    /\ inFlight = 0
    /\ checkCount = 0
    /\ cleanupCount = 0
    /\ lastCall = NoCall

\* v || d: a threshold of 0, or none at all (written 0), gives way to d
OrDefault(v, d) == IF v = 0 THEN d ELSE v

\* { ...defaults, ...given }: a key that given carries wins
SpreadOver(defaults, given) ==
    [k \in DOMAIN defaults \cup DOMAIN given |->
        IF k \in DOMAIN given THEN given[k] ELSE defaults[k]]

\* new Janitor(config) without a sessionManagement option
NoSessionManagement ==
    [present |-> FALSE, monitoring |-> [alertThreshold |-> 0, emergencyThreshold |-> 0]]

\* Janitor constructor: sessionManagement.monitoring of this.config.  The
\* defaults are filled in with ||, and then ...config puts the caller's own
\* sessionManagement object, when there is one, in the place of the result.
Janitor_constructor(given) ==
    LET filled == [alertThreshold |->
                       OrDefault(given.monitoring.alertThreshold, alertThreshold),
                   emergencyThreshold |->
                       OrDefault(given.monitoring.emergencyThreshold, emergencyThreshold)]
    IN  IF given.present THEN given.monitoring ELSE filled

\* SessionMonitor and ContextWatcher constructors: the thresholds of
\* this.config, from the config object _initSessionManagement hands over
\* (|| defaults, then ...config).
Component_constructor(config) ==
    SpreadOver([alertThreshold |-> OrDefault(config.alertThreshold, alertThreshold),
                emergencyThreshold |->
                    OrDefault(config.emergencyThreshold, emergencyThreshold)],
               config)

NoTick == [util |-> -1, branch |-> "none"]

\* The Janitor and its components after new Janitor(given).
Built(given) ==
    [built |-> TRUE, given |-> given,
     monitoring |-> Component_constructor(Janitor_constructor(given)),
     lastTick |-> NoTick]

\* No direct pruner call yet; the Janitor built from the default configuration.
NoPending == [active |-> FALSE, strategy |-> "none", selected |-> {}]
NoCheck == [utilizationPercent |-> -1, status |-> "none", branch |-> "none",
            autoCleanup |-> TRUE, watcherRunning |-> FALSE]
NoQuery == [op |-> "none"]

QueryInit ==
    /\ pendingClean = NoPending
    /\ lastCheck = NoCheck
    /\ lastQuery = NoQuery
    /\ analysisCache = <<>>
    /\ pendingAnalyses = {}

ApiInit ==
    /\ prunerCalls = <<>>
    /\ janitor = Built(NoSessionManagement)
    /\ QueryInit

NoArchives == [n \in {} |-> EmptyDir]

\* What an earlier run left for the day before StartHour: session 1, archived
\* by a manual cleanup, in the format config.compression gives.
PriorFiles == [id \in {1} |-> [messages |-> 2, chars |-> 80000]]
PriorInfo == [sessionId |-> 1, tokenCount |-> 20000, messageCount |-> 2,
              lastActive |-> StartHour - 2 * HoursPerDay, priority |-> "medium"]
PriorArchive(comp) ==
    archiveSessions(NoArchives, <<>>,
                    [id \in {1} |-> [content |-> PriorFiles[1], mtime |-> PriorInfo.lastActive]],
                    {PriorInfo}, "manual-cleanup", StartHour - HoursPerDay, comp, "none")

ArchiverInit ==
    /\ \/ archiveDir = NoArchives /\ index = <<>>
       \/ /\ archiveDir = PriorArchive(compression).archiveDir
          /\ index = PriorArchive(compression).index
    /\ lastOp = NoOp
    /\ evicted = {}
    /\ restoreResult = NoRestore

Init ==
    /\ sessions \in DirChoices
    /\ now = StartHour
    /\ compression \in BOOLEAN
    /\ budget = MaxOps
    /\ ArchiverInit
    /\ WatcherInit
    /\ ApiInit
    /\ watcherConfig = [enabled |-> TRUE, intervalMinutes |-> 5, autoCleanup |-> TRUE]

----------------------------------------------------------------------------
(* Operations on the session store and the archives *)

\* The state a cleanup leaves.
Apply(out) ==
    /\ sessions' = out.sessions
    /\ archiveDir' = out.archiveDir
    /\ index' = out.index
    /\ lastOp' = out.op
    /\ evicted' = evicted \cup {[id |-> id, content |-> sessions[id].content] :
                                  id \in out.op.deleted}
    /\ restoreResult' = NoRestore
    /\ budget' = budget - 1
    /\ UNCHANGED <<now, compression>>

\* ContextWatcher._performCheck, from the timer or from checkNow(), with
\* autoCleanup on as the Janitor sets it.
\* A _performCheck that calls the cleanups whatever config.autoCleanup says.
autoCleanupOn_unchecked(config) == TRUE

\* config.autoCleanup, as _performCheck tests it before either cleanup
autoCleanupOn(config) == config.autoCleanup

\* The cleanup _performCheck calls for a utilization: the comparisons are made
\* on usage.utilizationPercent, the rounded percentage.
triggered(util, config) ==
    IF util >= emergencyThreshold * 100
    THEN IF autoCleanupOn(config) THEN "emergency" ELSE "none"
    ELSE IF util >= alertThreshold * 100
    THEN IF autoCleanupOn(config) THEN "routine" ELSE "none"
    ELSE "none"

PerformCheck(fault, undeletable) ==
    /\ budget > 0
    /\ LET usage == getContextUsage(sessions, now)
           util == usage.utilizationPercent
           branch == triggered(util, watcherConfig)
       IN  /\ checkCount' = checkCount + 1
           /\ lastCheck' = [utilizationPercent |-> util, status |-> usage.status,
                            branch |-> branch,
                            autoCleanup |-> watcherConfig.autoCleanup,
                            watcherRunning |-> isRunning]
           /\ IF branch = "emergency"
              THEN /\ Apply(Emergency_execute(sessions, now, archiveDir, index,
                                              compression, fault, undeletable))
                   /\ cleanupCount' = cleanupCount + 1
              ELSE IF branch = "routine"
              THEN /\ Apply(triggerRoutineCleanup(sessions, now, util, archiveDir, index,
                                                  compression, fault, undeletable))
                   /\ cleanupCount' = IF routineCompleted(sessions, now, util, fault)
                                      THEN cleanupCount + 1 ELSE cleanupCount
              ELSE /\ budget' = budget - 1
                   /\ UNCHANGED <<sessions, now, archiveDir, index, compression, lastOp,
                                  evicted, restoreResult, cleanupCount>>
    /\ UNCHANGED <<watcherVars, analyzerVars, prunerCalls, janitor, pendingClean, lastQuery>>

\* Janitor.cleanContext(strategy)
CleanContext(strategy, fault, undeletable) ==
    /\ budget > 0
    /\ Apply(cleanContext(sessions, now, strategy, archiveDir, index, compression,
                          fault, undeletable))
    /\ UNCHANGED <<watcherVars, counterVars, apiVars>>

\* Janitor.emergencyClean()
EmergencyClean(fault, undeletable) ==
    /\ budget > 0
    /\ Apply(Janitor_emergencyClean(sessions, now, archiveDir, index, compression,
                                    fault, undeletable))
    /\ UNCHANGED <<watcherVars, counterVars, apiVars>>

\* The bundle names a caller may ask restore() for: what the archive directory
\* holds, what the index lists, what the last archive call returned.
NameChoices ==
    DOMAIN archiveDir \cup {index[i].archiveName : i \in 1..Len(index)}
        \cup ({lastOp.archiveName} \ {NullName})

\* SessionArchiver.restore(archiveName) into the live session directory
RestoreLive(archiveName, fault) ==
    /\ budget > 0
    /\ LET r == restore(archiveDir, archiveName, sessions, now, fault)
       IN  /\ sessions' = r.target
           /\ restoreResult' =
                 [archiveName |-> archiveName, target |-> "live", outcome |-> r.outcome,
                  restored |-> r.restored, skipped |-> r.skipped,
                  bundleSize |-> IF archiveName \in DOMAIN archiveDir
                                 THEN Cardinality(DOMAIN archiveDir[archiveName]) ELSE 0,
                  files |-> EmptyDir]
    /\ budget' = budget - 1
    /\ UNCHANGED <<now, archiveDir, index, compression, lastOp, evicted>>
    /\ UNCHANGED <<watcherVars, counterVars, apiVars>>

\* SessionArchiver.restore(archiveName, targetPath), targetPath an empty directory
RestoreEmpty(archiveName, fault) ==
    /\ budget > 0
    /\ LET r == restore(archiveDir, archiveName, EmptyDir, now, fault)
       IN  restoreResult' =
                 [archiveName |-> archiveName, target |-> "empty", outcome |-> r.outcome,
                  restored |-> r.restored, skipped |-> r.skipped,
                  bundleSize |-> IF archiveName \in DOMAIN archiveDir
                                 THEN Cardinality(DOMAIN archiveDir[archiveName]) ELSE 0,
                  files |-> r.target]
    /\ budget' = budget - 1
    /\ UNCHANGED <<sessions, now, archiveDir, index, compression, lastOp, evicted>>
    /\ UNCHANGED <<watcherVars, counterVars, apiVars>>

\* The host writes a session file: a new conversation, or new activity in an
\* existing one.
SessionActivity(id, content) ==
    /\ budget > 0
    /\ sessions' = [i \in DOMAIN sessions \cup {id} |->
                       IF i = id THEN [content |-> content, mtime |-> now]
                       ELSE sessions[i]]
    /\ budget' = budget - 1
    /\ UNCHANGED <<now, archiveDir, index, compression, lastOp, evicted, restoreResult>>
    /\ UNCHANGED <<watcherVars, counterVars, apiVars>>

\* Midnight passes.
AdvanceDay ==
    /\ now < StartHour + MaxDayAdvances * HoursPerDay
    /\ now' = now + HoursPerDay
    /\ UNCHANGED <<sessions, archiveDir, index, compression, lastOp, evicted,
                   restoreResult, budget>>
    /\ UNCHANGED <<watcherVars, counterVars, apiVars>>

Next ==
    \/ \E x \in Faults : PerformCheck(x.archive, x.undeletable)
    \/ \E st \in Strategies, x \in Faults : CleanContext(st, x.archive, x.undeletable)
    \/ \E x \in Faults : EmergencyClean(x.archive, x.undeletable)
    \/ \E n \in NameChoices, f \in RestoreFaults : RestoreLive(n, f)
    \/ \E n \in NameChoices, f \in RestoreFaults : RestoreEmpty(n, f)
    \/ \E id \in SessionIds, c \in ContentChoices : SessionActivity(id, c)
    \/ AdvanceDay

Spec == Init /\ [][Next]_vars

----------------------------------------------------------------------------
(* A manual cleanContext whose awaits let a watcher tick run in between *)

\* cleanContext up to its selection: getContextUsage, dryRun, the filter
CleanContextBegin(strategy) ==
    /\ budget > 0
    /\ ~pendingClean.active
    /\ pendingClean' = [active |-> TRUE, strategy |-> strategy,
                        selected |-> sessionsToPrune(sessions, now, strategy)]
    /\ UNCHANGED <<fsVars, watcherVars, counterVars, analyzerVars, prunerCalls, janitor,
                   lastCheck, lastQuery>>

\* cleanContext from archiveSessions to its return, on the directory as it is
\* by then
CleanContextFinish ==
    /\ budget > 0
    /\ pendingClean.active
    /\ LET out == cleanContext_finish(sessions, now, pendingClean.strategy,
                                      pendingClean.selected, archiveDir, index,
                                      compression, "none", {})
       IN  Apply([out EXCEPT !.op.report = cleanContext_result(out.op)])
    /\ pendingClean' = NoPending
    /\ UNCHANGED <<watcherVars, counterVars, analyzerVars, prunerCalls, janitor, lastCheck, lastQuery>>

\* The watcher's tick, with no fault of the file system
Tick ==
    PerformCheck("none", {})

InitInterleave ==
    Init

NextInterleave ==
    \/ \E st \in Strategies : CleanContextBegin(st)
    \/ Tick
    \/ CleanContextFinish

SpecInterleave == InitInterleave /\ [][NextInterleave]_vars

----------------------------------------------------------------------------
(* The archiver used on its own: archives made over weeks, then the
   retention sweep *)

RetentionDir ==
    [id \in 1..2 |-> [content |-> [messages |-> 2, chars |-> 80000],
                      mtime |-> StartHour - 1]]

PassChoices == {12, retentionDays * HoursPerDay}     \* hours

IndexFaults == {"none", "indexRead"}

\* archiver.archiveSessions(sessions, reason), called directly with the live
\* sessions
ArchiveSessions(fault) ==
    /\ budget > 0
    /\ LET arch == archiveSessions(archiveDir, index, sessions,
                                   SeqRange(getContextUsage(sessions, now).sessions),
                                   "manual-cleanup", now, compression, fault)
       IN  /\ archiveDir' = arch.archiveDir
           /\ index' = arch.index
    /\ budget' = budget - 1
    /\ lastQuery' = NoQuery
    /\ UNCHANGED <<sessions, now, compression, lastOp, evicted, restoreResult>>
    /\ UNCHANGED <<watcherVars, counterVars, analyzerVars, prunerCalls, janitor, pendingClean, lastCheck>>

\* Time passes.
Pass(hours) ==
    /\ budget > 0
    /\ now' = now + hours
    /\ budget' = budget - 1
    /\ lastQuery' = NoQuery
    /\ UNCHANGED <<sessions, archiveDir, index, compression, lastOp, evicted,
                   restoreResult>>
    /\ UNCHANGED <<watcherVars, counterVars, analyzerVars, prunerCalls, janitor, pendingClean, lastCheck>>

\* archiver.cleanupOldArchives()
CleanupOldArchives ==
    /\ budget > 0
    /\ LET swept == cleanupOldArchives(archiveDir, index, now)
       IN  /\ archiveDir' = swept.archiveDir
           /\ index' = swept.index
           /\ lastQuery' = [op |-> "cleanupOldArchives", now |-> now,
                            archiveDir |-> archiveDir, index |-> index,
                            deleted |-> swept.deleted]
    /\ budget' = budget - 1
    /\ UNCHANGED <<sessions, now, compression, lastOp, evicted, restoreResult>>
    /\ UNCHANGED <<watcherVars, counterVars, analyzerVars, prunerCalls, janitor, pendingClean, lastCheck>>

InitRetention ==
    /\ sessions = RetentionDir
    /\ now = StartHour
    /\ compression \in BOOLEAN
    /\ budget = MaxRetentionOps
    /\ archiveDir = NoArchives
    /\ index = <<>>
    /\ lastOp = NoOp
    /\ evicted = {}
    /\ restoreResult = NoRestore
    /\ WatcherInit
    /\ ApiInit
    /\ watcherConfig = [enabled |-> TRUE, intervalMinutes |-> 5, autoCleanup |-> TRUE]

NextRetention ==
    \/ \E f \in IndexFaults : ArchiveSessions(f)
    \/ \E h \in PassChoices : Pass(h)
    \/ CleanupOldArchives

SpecRetention == InitRetention /\ [][NextRetention]_vars

----------------------------------------------------------------------------
(* The monitor's snapshot and the tick that acts on it, at utilizations on
   both sides of the breakpoints *)

\* conversations of 50,000, 69,995 and 70,000 tokens
MonitorContents ==
    { [messages |-> 4, chars |-> 200000],
      [messages |-> 4, chars |-> 279980],
      [messages |-> 4, chars |-> 280000] }

MonitorDirChoices ==
    UNION {[1..n -> [content : MonitorContents,
                     mtime : {StartHour - a : a \in AgeChoices}]] : n \in 0..MaxSessions}

ScanFaults ==
    {[unreadable |-> {}, unstatable |-> {}]}
        \cup {[unreadable |-> {id}, unstatable |-> {}] : id \in SessionIds}
        \cup {[unreadable |-> {}, unstatable |-> {id}] : id \in SessionIds}

\* monitor.getContextUsage()
GetContextUsage(unreadable, unstatable) ==
    /\ budget > 0
    /\ lastQuery' = [op |-> "getContextUsage",
                     unreadable |-> unreadable \cap DOMAIN sessions,
                     unstatable |-> unstatable \cap DOMAIN sessions,
                     dir |-> sessions,
                     usage |-> scanUsage(sessions, now, unreadable, unstatable)]
    /\ budget' = budget - 1
    /\ UNCHANGED <<sessions, now, archiveDir, index, compression, lastOp, evicted,
                   restoreResult>>
    /\ UNCHANGED <<watcherVars, counterVars, analyzerVars, prunerCalls, janitor, pendingClean, lastCheck>>

InitMonitor ==
    /\ sessions \in MonitorDirChoices
    /\ now = StartHour
    /\ compression = TRUE
    /\ budget = 1
    /\ archiveDir = NoArchives
    /\ index = <<>>
    /\ lastOp = NoOp
    /\ evicted = {}
    /\ restoreResult = NoRestore
    /\ WatcherInit
    /\ ApiInit
    /\ watcherConfig \in [enabled : {TRUE}, intervalMinutes : {5}, autoCleanup : BOOLEAN]

NextMonitor ==
    \/ \E x \in Faults : PerformCheck(x.archive, x.undeletable)
    \/ \E x \in ScanFaults : GetContextUsage(x.unreadable, x.unstatable)

SpecMonitor == InitMonitor /\ [][NextMonitor]_vars

----------------------------------------------------------------------------
(* The pruner asked for a strategy *)

\* utilization percentages, in hundredths: every half percent up to 120, and
\* the last hundredth under each breakpoint
UtilGrid ==
    {50 * k : k \in 0..240} \cup {7499, 8499, 9499}

\* pruner.getRecommendedStrategy(utilizationPercent)
GetRecommendedStrategy(util) ==
    /\ lastQuery' = [op |-> "getRecommendedStrategy", utilizationPercent |-> util,
                     strategy |-> getRecommendedStrategy(util)]
    /\ UNCHANGED <<fsVars, watcherVars, counterVars, analyzerVars, prunerCalls, janitor,
                   pendingClean, lastCheck>>

InitStrategy ==
    /\ sessions = EmptyDir
    /\ now = StartHour
    /\ compression = TRUE
    /\ budget = 0
    /\ archiveDir = NoArchives
    /\ index = <<>>
    /\ lastOp = NoOp
    /\ evicted = {}
    /\ restoreResult = NoRestore
    /\ WatcherInit
    /\ ApiInit
    /\ watcherConfig = [enabled |-> TRUE, intervalMinutes |-> 5, autoCleanup |-> TRUE]

NextStrategy ==
    \E util \in UtilGrid : GetRecommendedStrategy(util)

SpecStrategy == InitStrategy /\ [][NextStrategy]_vars

----------------------------------------------------------------------------
(* Repeated scans, with ticks and session writes between them *)

ScanDirChoices ==
    [SessionIds -> [content : MonitorContents, mtime : {StartHour - 200}]]

InitScans ==
    /\ sessions \in ScanDirChoices
    /\ now = StartHour
    /\ compression = TRUE
    /\ budget = MaxScanOps
    /\ archiveDir = NoArchives
    /\ index = <<>>
    /\ lastOp = NoOp
    /\ evicted = {}
    /\ restoreResult = NoRestore
    /\ WatcherInit
    /\ ApiInit
    /\ watcherConfig = [enabled |-> TRUE, intervalMinutes |-> 5, autoCleanup |-> TRUE]

NextScans ==
    \/ \E x \in ScanFaults : GetContextUsage(x.unreadable, x.unstatable)
    \/ Tick
    \/ \E id \in SessionIds, c \in MonitorContents : SessionActivity(id, c)

SpecScans == InitScans /\ [][NextScans]_vars

----------------------------------------------------------------------------
(* ContextWatcher: start, stop, updateConfig and the interval timer *)

\* The watcher object and the timers of its event loop, as one record.
Watcher ==
    [isRunning |-> isRunning, intervalId |-> intervalId, timers |-> timers,
     inFlight |-> inFlight, checkCount |-> checkCount, config |-> watcherConfig]

\* setInterval returns a timer that was not there before.
FreshTimer(w) == CHOOSE id \in 1..(Cardinality(w.timers) + 1) : id \notin w.timers

\* _performCheck() is entered (it is async and is not awaited): the counter
\* goes up at once, the rest of the tick completes later.
beginCheck(w) ==
    [w EXCEPT !.checkCount = @ + 1, !.inFlight = @ + 1]

start(w) ==
    IF w.isRunning THEN w
    ELSE IF ~w.config.enabled THEN w
    ELSE LET checked == beginCheck([w EXCEPT !.isRunning = TRUE])
         IN  [checked EXCEPT !.intervalId = FreshTimer(w),
                             !.timers = @ \cup {FreshTimer(w)}]

\* A stop() that also cancels the ticks in flight
stop_cancelsInFlight(w) ==
    IF ~w.isRunning THEN w
    ELSE [w EXCEPT !.timers = IF w.intervalId # 0 THEN @ \ {w.intervalId} ELSE @,
                   !.intervalId = 0,
                   !.isRunning = FALSE,
                   !.inFlight = 0]

\* stop() without its clearInterval
stop_keepsTimer(w) ==
    IF ~w.isRunning THEN w
    ELSE [w EXCEPT !.intervalId = 0, !.isRunning = FALSE]

stop(w) ==
    IF ~w.isRunning THEN w
    ELSE [w EXCEPT !.timers = IF w.intervalId # 0 THEN @ \ {w.intervalId} ELSE @,
                   !.intervalId = 0,
                   !.isRunning = FALSE]

\* A newConfig carries intervalMinutes or not (-1), and enabled or not ("absent").
NewConfigChoices ==
    [intervalMinutes : {-1, 0, 10}, enabled : {"absent", "true", "false"}]

mergeConfig(config, newConfig) ==
    [enabled |-> IF newConfig.enabled = "absent" THEN config.enabled
                 ELSE newConfig.enabled = "true",
     intervalMinutes |-> IF newConfig.intervalMinutes = -1 THEN config.intervalMinutes
                         ELSE newConfig.intervalMinutes,
     autoCleanup |-> config.autoCleanup]

\* newConfig.intervalMinutes is truthy: present and not 0
restarts(w, newConfig) == w.isRunning /\ newConfig.intervalMinutes > 0

updateConfig(w, newConfig) ==
    LET merged == [w EXCEPT !.config = mergeConfig(w.config, newConfig)]
    IN  IF restarts(w, newConfig) THEN start(stop(merged)) ELSE merged

\* The watcher after a call, within the bounds of the model.
SetWatcher(w) ==
    /\ w.checkCount <= MaxChecks
    /\ w.inFlight <= MaxInFlight
    /\ Cardinality(w.timers) <= MaxTimers
    /\ isRunning' = w.isRunning
    /\ intervalId' = w.intervalId
    /\ timers' = w.timers
    /\ inFlight' = w.inFlight
    /\ checkCount' = w.checkCount
    /\ watcherConfig' = w.config
    /\ UNCHANGED <<fsVars, cleanupCount, apiVars>>

Start ==
    /\ SetWatcher(start(Watcher))
    /\ lastCall' = [op |-> "start", wasRunning |-> isRunning, restarted |-> FALSE]

Stop ==
    /\ SetWatcher(stop(Watcher))
    /\ lastCall' = [op |-> "stop", wasRunning |-> isRunning, restarted |-> FALSE]

UpdateConfig(newConfig) ==
    /\ SetWatcher(updateConfig(Watcher, newConfig))
    /\ lastCall' = [op |-> "updateConfig", wasRunning |-> isRunning,
                    restarted |-> restarts(Watcher, newConfig)]

\* An interval timer fires and calls _performCheck(), whatever became of the
\* ticks before it.
TimerFire(id) ==
    /\ id \in timers
    /\ SetWatcher(beginCheck(Watcher))
    /\ UNCHANGED lastCall

\* A tick runs to its end.  The session directory of this specification is
\* empty, so the tick finds usage in the normal range and cleans nothing.
CheckComplete ==
    /\ inFlight > 0
    /\ getContextUsage(sessions, now).utilizationPercent < alertThreshold * 100
    /\ inFlight' = inFlight - 1
    /\ UNCHANGED <<fsVars, isRunning, intervalId, timers, checkCount, cleanupCount,
                   watcherConfig, lastCall, apiVars>>

InitWatcher ==
    /\ sessions = EmptyDir
    /\ now = StartHour
    /\ compression = TRUE
    /\ budget = 0
    /\ archiveDir = NoArchives
    /\ index = <<>>
    /\ lastOp = NoOp
    /\ evicted = {}
    /\ restoreResult = NoRestore
    /\ WatcherInit
    /\ ApiInit
    /\ watcherConfig \in [enabled : BOOLEAN, intervalMinutes : {5}, autoCleanup : {TRUE}]

NextWatcher ==
    \/ Start
    \/ Stop
    \/ \E c \in NewConfigChoices : UpdateConfig(c)
    \/ \E id \in timers : TimerFire(id)
    \/ CheckComplete

SpecWatcher == InitWatcher /\ [][NextWatcher]_vars

----------------------------------------------------------------------------
(* The watcher stopped and started over a directory its ticks clean *)

\* Not the program: a tick whose cleanup raised an exception takes the
\* watcher down with it.
endCheck_stopsOnError(w, threw) ==
    IF threw
    THEN [w EXCEPT !.inFlight = @ - 1,
                   !.timers = IF w.intervalId # 0 THEN @ \ {w.intervalId} ELSE @,
                   !.intervalId = 0,
                   !.isRunning = FALSE]
    ELSE [w EXCEPT !.inFlight = @ - 1]

\* The end of _performCheck: an exception that reached it or one of the
\* _trigger methods is logged in their catch blocks, and the invocation is over.
endCheck(w, threw) == [w EXCEPT !.inFlight = @ - 1]

\* The rest of a _performCheck that was entered earlier: it measures, runs the
\* cleanup the measurement calls for, and ends.  Nothing in it reads isRunning.
TickComplete(fault, undeletable) ==
    /\ inFlight > 0
    /\ LET usage == getContextUsage(sessions, now)
           util == usage.utilizationPercent
           branch == triggered(util, watcherConfig)
           out == IF branch = "emergency"
                  THEN Emergency_execute(sessions, now, archiveDir, index,
                                         compression, fault, undeletable)
                  ELSE triggerRoutineCleanup(sessions, now, util, archiveDir, index,
                                             compression, fault, undeletable)
           ended == endCheck(Watcher, branch # "none" /\ out.op.archiveThrew)
       IN  /\ lastCheck' = [utilizationPercent |-> util, status |-> usage.status,
                            branch |-> branch,
                            autoCleanup |-> watcherConfig.autoCleanup,
                            watcherRunning |-> isRunning]
           /\ isRunning' = ended.isRunning
           /\ intervalId' = ended.intervalId
           /\ timers' = ended.timers
           /\ inFlight' = ended.inFlight
           /\ IF branch = "emergency"
              THEN /\ Apply(out)
                   /\ cleanupCount' = cleanupCount + 1
              ELSE IF branch = "routine"
              THEN /\ Apply(out)
                   /\ cleanupCount' = IF routineCompleted(sessions, now, util, fault)
                                      THEN cleanupCount + 1 ELSE cleanupCount
              ELSE /\ budget' = budget - 1
                   /\ UNCHANGED <<sessions, now, archiveDir, index, compression, lastOp,
                                  evicted, restoreResult, cleanupCount>>
    /\ UNCHANGED <<checkCount, watcherConfig, lastCall,
                   analyzerVars, prunerCalls, janitor, pendingClean, lastQuery>>

StopDirChoices ==
    [SessionIds -> [content : {[messages |-> 4, chars |-> 200000],
                               [messages |-> 4, chars |-> 280000]},
                    mtime : {StartHour - 200}]]

InitStop ==
    /\ sessions \in StopDirChoices
    /\ now = StartHour
    /\ compression = TRUE
    /\ budget = MaxChecks + 1
    /\ archiveDir = NoArchives
    /\ index = <<>>
    /\ lastOp = NoOp
    /\ evicted = {}
    /\ restoreResult = NoRestore
    /\ WatcherInit
    /\ ApiInit
    /\ watcherConfig = [enabled |-> TRUE, intervalMinutes |-> 5, autoCleanup |-> TRUE]

AnyTickComplete ==
    \E x \in Faults : TickComplete(x.archive, x.undeletable)

NextStop ==
    \/ Start
    \/ Stop
    \/ \E id \in timers : TimerFire(id)
    \/ AnyTickComplete

SpecStop == InitStop /\ [][NextStop]_vars

----------------------------------------------------------------------------
(* The worked scenario: ten sessions of 25,000 tokens against the 200,000 budget *)

ScenarioIds == 1..10
ScenarioContent == [messages |-> 4, chars |-> 100000]

InitScenario ==
    /\ sessions \in [ScenarioIds -> [content : {ScenarioContent},
                                     mtime : {StartHour - a : a \in AgeChoices}]]
    /\ now = StartHour
    /\ compression \in BOOLEAN
    /\ budget = 1
    /\ archiveDir = NoArchives
    /\ index = <<>>
    /\ lastOp = NoOp
    /\ evicted = {}
    /\ restoreResult = NoRestore
    /\ WatcherInit
    /\ ApiInit
    /\ watcherConfig = [enabled |-> TRUE, intervalMinutes |-> 5, autoCleanup |-> TRUE]

NextScenario ==
    \/ \E x \in Faults : PerformCheck(x.archive, x.undeletable)
    \/ \E x \in Faults : EmergencyClean(x.archive, x.undeletable)

SpecScenario == InitScenario /\ [][NextScenario]_vars

----------------------------------------------------------------------------
(* SessionPruner called directly: prune(strategy) and dryRun(strategy) *)

MaxPrunerSessions == 5    \* session files in the directory at the start
MaxPrunerCalls == 2       \* prune / dryRun calls per behaviour

Pruner_keepMinimumSessions == 5

\* Conversations of 0, 6 and 15 messages (40,000, 40,000 and 60,000 tokens)
Silent == [messages |-> 0, chars |-> 160000]
Short == [messages |-> 6, chars |-> 160000]
Engaged == [messages |-> 15, chars |-> 240000]

\* The session files met: last written an hour, 150 hours or 10 days ago.
PrunerProfiles ==
    << [content |-> Silent,  mtime |-> StartHour - 1],
       [content |-> Engaged, mtime |-> StartHour - 1],
       [content |-> Silent,  mtime |-> StartHour - 150],
       [content |-> Silent,  mtime |-> StartHour - 10 * HoursPerDay],
       [content |-> Short,   mtime |-> StartHour - 10 * HoursPerDay],
       [content |-> Engaged, mtime |-> StartHour - 10 * HoursPerDay] >>

\* The directories readdir may list: up to MaxPrunerSessions files; which id a
\* file has does not matter to the pruner, so the files are listed in the
\* order of PrunerProfiles.
PrunerDirChoices ==
    UNION { { [id \in 1..n |-> PrunerProfiles[f[id]]] :
                f \in {g \in [1..n -> 1..Len(PrunerProfiles)] :
                          \A i, j \in 1..n : i < j => g[i] <= g[j]} } :
            n \in 0..MaxPrunerSessions }

PrunerCall(op, strategy, dir, t, selected, deleted, after) ==
    [op |-> op, strategy |-> strategy, at |-> t, before |-> dir, after |-> after,
     selected |-> selected, deleted |-> deleted,
     unlinkErrors |-> Cardinality(selected \ deleted)]

\* pruner.prune(strategy); unlink fails for the ids in undeletable
Prune(strategy, undeletable) ==
    /\ Len(prunerCalls) < MaxPrunerCalls
    /\ LET selected == dryRun(sessions, now, strategy)
           deleted == prune(sessions, now, strategy, undeletable)
       IN  /\ sessions' = Unlink(sessions, deleted)
           /\ prunerCalls' = Append(prunerCalls,
                  PrunerCall("prune", strategy, sessions, now, selected, deleted,
                             Unlink(sessions, deleted))
                    @@ [failed |-> selected \cap undeletable,
                        results |-> prune_results(sessions, now, strategy,
                                                  undeletable)])
    /\ UNCHANGED <<now, archiveDir, index, compression, lastOp, evicted,
                   restoreResult, budget, analyzerVars, janitor, queryVars>>
    /\ UNCHANGED <<watcherVars, counterVars>>

\* pruner.dryRun(strategy): the preview, and no write to the directory
DryRun(strategy) ==
    /\ Len(prunerCalls) < MaxPrunerCalls
    /\ prunerCalls' = Append(prunerCalls,
           PrunerCall("dryRun", strategy, sessions, now,
                      dryRun(sessions, now, strategy), {}, sessions))
    /\ UNCHANGED <<fsVars, analyzerVars, janitor, queryVars>>
    /\ UNCHANGED <<watcherVars, counterVars>>

InitPruner ==
    /\ sessions \in PrunerDirChoices
    /\ now = StartHour
    /\ compression = TRUE
    /\ budget = 0
    /\ archiveDir = NoArchives
    /\ index = <<>>
    /\ lastOp = NoOp
    /\ evicted = {}
    /\ restoreResult = NoRestore
    /\ WatcherInit
    /\ ApiInit
    /\ watcherConfig = [enabled |-> TRUE, intervalMinutes |-> 5, autoCleanup |-> TRUE]

NextPruner ==
    \/ \E st \in Strategies, u \in {{}, {1}} : Prune(st, u)
    \/ \E st \in Strategies : DryRun(st)

SpecPruner == InitPruner /\ [][NextPruner]_vars

----------------------------------------------------------------------------
(* Construction from a configuration, and the watcher run on what was built *)

ThresholdChoices == {0, 50, 80, 95}

GivenChoices ==
    {NoSessionManagement} \cup
        {[present |-> TRUE,
          monitoring |-> [alertThreshold |-> a, emergencyThreshold |-> e]] :
            a \in ThresholdChoices, e \in ThresholdChoices}

\* utilization a tick may measure, in hundredths of a percent
UtilChoices == {7000, 8500, 10000}

\* The branch _performCheck takes on the thresholds of the watcher's config.
performCheckBranch(util, config) ==
    IF util >= config.emergencyThreshold * 100 THEN "emergency"
    ELSE IF util >= config.alertThreshold * 100 THEN "routine"
    ELSE "normal"

\* new Janitor(config)
Construct ==
    /\ ~janitor.built
    /\ janitor' = Built(janitor.given)
    /\ UNCHANGED <<fsVars, watcherVars, counterVars, analyzerVars, prunerCalls, queryVars>>

\* janitor.startMonitoring() / stopMonitoring() on the Janitor that was built
StartBuilt == janitor.built /\ Start
StopBuilt == janitor.built /\ Stop

\* A tick of the running watcher that measures util.
ConfiguredTick(util) ==
    /\ janitor.built
    /\ isRunning
    /\ janitor' = [janitor EXCEPT !.lastTick =
                      [util |-> util,
                       branch |-> performCheckBranch(util, janitor.monitoring)]]
    /\ UNCHANGED <<fsVars, watcherVars, counterVars, analyzerVars, prunerCalls, queryVars>>

InitConfig ==
    /\ sessions = EmptyDir
    /\ now = StartHour
    /\ compression = TRUE
    /\ budget = 0
    /\ archiveDir = NoArchives
    /\ index = <<>>
    /\ lastOp = NoOp
    /\ evicted = {}
    /\ restoreResult = NoRestore
    /\ WatcherInit
    /\ watcherConfig = [enabled |-> TRUE, intervalMinutes |-> 5, autoCleanup |-> TRUE]
    /\ prunerCalls = <<>>
    /\ QueryInit
    /\ \E g \in GivenChoices :
          janitor = [built |-> FALSE, given |-> g, monitoring |-> g.monitoring,
                     lastTick |-> NoTick]

NextConfig ==
    \/ Construct
    \/ StartBuilt
    \/ StopBuilt
    \/ \E u \in UtilChoices : ConfiguredTick(u)

SpecConfig == InitConfig /\ [][NextConfig]_vars

----------------------------------------------------------------------------
(* Claims *)

\* C1: in every cleanup path (watcher routine cleanup, manual cleanContext,
\* emergency execute) the sessions unlinked are a subset of the sessions the
\* archiveSessions call of the same operation archived.
C1_DeletedWereArchived ==
    lastOp.deleted \subseteq DOMAIN lastOp.archivedFiles

\* C2: when archiveSessions raises, the cleanup operation unlinks no session,
\* whichever of the three callers ran it.
C2_ArchiveFailureBlocksDeletion ==
    lastOp.archiveThrew =>
        /\ lastOp.deleted = {}
        /\ lastOp.liveAfter = lastOp.liveBefore

\* C2 witness: a watcher routine cleanup whose archive call raised, with
\* sessions in the directory that the pruner would have selected.
C2_Witness ==
    /\ lastOp.kind = "routine"
    /\ lastOp.archiveThrew
    /\ dryRun(sessions, now, "moderate") # {}

\* C3: a bundle, once written, keeps its content under every later archive
\* operation, a second archiveSessions call on the same day included.
C3_BundleWriteOnce ==
    [][\A n \in DOMAIN archiveDir :
          n \in DOMAIN archiveDir' => archiveDir'[n] = archiveDir[n]]_vars

\* C4: every session a cleanup has evicted is held, with the content it had,
\* by some bundle that the archive index lists (under the listed name, or as
\* the directory an uncompressed archive is written to for that name).
C4_EvictedRestorable ==
    \A e \in evicted :
        \E i \in 1..Len(index) :
            \E n \in {index[i].archiveName, StripTarGz(index[i].archiveName)} :
                /\ n \in DOMAIN archiveDir
                /\ e.id \in DOMAIN archiveDir[n]
                /\ archiveDir[n][e.id] = e.content

\* C5: emergency execute() on at least keepMinimumSessions live sessions
\* leaves at least keepMinimumSessions of them live.
C5_EmergencyKeepsMinimum ==
    (lastOp.kind = "emergency" /\ lastOp.liveBefore >= Emergency_keepMinimumSessions)
        => lastOp.liveAfter >= Emergency_keepMinimumSessions

\* C6: at most one tick of the watcher is executing at any time.
C6_NoOverlappingTicks ==
    inFlight <= 1

\* C7: the watcher is stopped with no timer or running with exactly one, and
\* start while running and stop while stopped change nothing.
WatcherState == <<isRunning, intervalId, timers, inFlight, checkCount, watcherConfig>>

C7_StoppedOrOneTimer ==
    \/ ~isRunning /\ intervalId = 0 /\ timers = {}
    \/ isRunning /\ intervalId # 0 /\ timers = {intervalId}

C7_WatcherFsm ==
    /\ []C7_StoppedOrOneTimer
    /\ [][/\ (isRunning /\ Start) => UNCHANGED WatcherState
          /\ (~isRunning /\ Stop) => UNCHANGED WatcherState]_vars

\* C7 witness: updateConfig restarted a running watcher, which runs on one timer.
C7_Witness ==
    /\ lastCall.op = "updateConfig"
    /\ lastCall.restarted
    /\ isRunning
    /\ Cardinality(timers) = 1

\* C8: restore() into the live directory leaves every session file that is
\* already there as it was, counts it as skipped, and restored + skipped is
\* the number of sessions in the bundle.
C8_RestoreNeverOverwrites ==
    [][(restoreResult' # restoreResult /\ restoreResult'.target = "live") =>
          /\ \A id \in DOMAIN sessions :
                id \in DOMAIN sessions' /\ sessions'[id] = sessions[id]
          /\ restoreResult'.outcome = "ok" =>
                /\ restoreResult'.restored + restoreResult'.skipped
                      = restoreResult'.bundleSize
                /\ restoreResult'.skipped
                      = Cardinality(DOMAIN sessions
                                    \cap DOMAIN archiveDir[restoreResult'.archiveName])
                /\ DOMAIN sessions'
                      = DOMAIN sessions \cup DOMAIN archiveDir[restoreResult'.archiveName]]_vars

\* C8 witness: a restore skipped a live session whose content differs from the
\* archived copy, and that session still has the live content.
C8_Witness ==
    /\ restoreResult.target = "live"
    /\ restoreResult.outcome = "ok"
    /\ restoreResult.skipped > 0
    /\ \E id \in DOMAIN sessions \cap DOMAIN archiveDir[restoreResult.archiveName] :
          sessions[id].content # archiveDir[restoreResult.archiveName][id]

\* C9: for either compression setting, restoring the bundle name that
\* archiveSessions returned into an empty directory yields every archived
\* session with the content it was archived with.
C9_RoundTrip ==
    (/\ restoreResult.target = "empty"
     /\ restoreResult.outcome # "failed"
     /\ lastOp.archivedFiles # EmptyDir
     /\ restoreResult.archiveName = lastOp.archiveName)
        => /\ restoreResult.outcome = "ok"
           /\ \A id \in DOMAIN lastOp.archivedFiles :
                 /\ id \in DOMAIN restoreResult.files
                 /\ restoreResult.files[id].content = lastOp.archivedFiles[id]

\* C10: in the scenario (10 sessions of 25,000 tokens, budget 200,000), an
\* emergency execute() that meets no I/O fault archives all 10 sessions, leaves
\* at least 5 live and frees at least 50,000 tokens.
C10_Scenario ==
    (/\ lastOp.kind = "emergency"
     /\ ~lastOp.archiveThrew
     /\ lastOp.unlinkErrors = 0
     /\ lastOp.liveBefore = Cardinality(ScenarioIds))
        => /\ DOMAIN lastOp.archivedFiles = ScenarioIds
           /\ lastOp.liveAfter >= 5
           /\ lastOp.tokensFreed >= 50000

\* C11: emergency execute() unlinks no session younger than the keep-recent
\* window, however many sessions are that recent.
C11_EmergencyDeletesOnlyOld ==
    [][(lastOp' # lastOp /\ lastOp'.kind = "emergency") =>
          \A id \in lastOp'.deleted :
              now - sessions[id].mtime >= Emergency_keepRecentHours]_vars

\* C20: once an emergency cleanup has left utilization at or above the
\* emergency threshold, a later tick of the watcher archives nothing and
\* unlinks nothing.
C20_NoAutomaticRetry ==
    [][(/\ lastOp.kind = "emergency"
        /\ ~Emergency_success(sessions, now)
        /\ checkCount' = checkCount + 1)
          => UNCHANGED <<sessions, archiveDir, index>>]_vars

----------------------------------------------------------------------------
(* Claims about the pruner called directly; c is an entry of prunerCalls *)

CallAge(c, id) == c.at - c.before[id].mtime
CallUtil(c) == getContextUsage(c.before, c.at).utilizationPercent
CallScore(c, id) == calculatePruneScore(SessionInfo(c.before, c.at, id), c.at)

\* The sessions of the call that are neither recent nor of high engagement,
\* and those of them that are older than maxSessionAge days.
Unprotected(c) ==
    {id \in DOMAIN c.before :
        /\ CallAge(c, id) >= Pruner_keepRecentHours
        /\ c.before[id].content.messages < minMessagesForImportant}
Expired(c) ==
    {id \in Unprotected(c) : CallAge(c, id) > maxSessionAge * HoursPerDay}

\* X is a share of pct percent of R, rounded either way, lowest score first.
LowestShare(c, X, R, pct) ==
    /\ X \subseteq R
    /\ (Cardinality(R) * pct) \div 100 <= Cardinality(X)
    /\ Cardinality(X) <= CeilFrac(Cardinality(R), pct)
    /\ \A x \in X, y \in R \ X : CallScore(c, x) <= CallScore(c, y)

PrunerCalls == {prunerCalls[i] : i \in 1..Len(prunerCalls)}

C13_PruneKeepsMinimum ==
    \A c \in PrunerCalls :
        (c.op = "prune" /\ Cardinality(DOMAIN c.before) >= Pruner_keepMinimumSessions)
            => Cardinality(DOMAIN c.after) >= Pruner_keepMinimumSessions

\* C14: moderate selects the expired sessions and, above 80% utilization, the
\* lowest-scored quarter of the unprotected sessions that are not expired; at
\* 80% or less it selects the expired sessions only.
C14_ModerateSelection ==
    \A c \in PrunerCalls :
        c.strategy = "moderate" =>
            /\ Expired(c) \subseteq c.selected
            /\ IF CallUtil(c) > 8000
               THEN LowestShare(c, c.selected \ Expired(c),
                                Unprotected(c) \ Expired(c), 25)
               ELSE c.selected = Expired(c)

\* C15: aggressive selects, lowest score first, 25% of the unprotected
\* sessions above 80% utilization, 50% above 90% and 70% above 95%.
C15_AggressiveFractions ==
    \A c \in PrunerCalls :
        (c.strategy = "aggressive" /\ CallUtil(c) > 8000) =>
            LowestShare(c, c.selected, Unprotected(c),
                        IF CallUtil(c) > 9500 THEN 70
                        ELSE IF CallUtil(c) > 9000 THEN 50 ELSE 25)

\* C16: conservative selects exactly the unprotected sessions older than
\* maxSessionAge days, at any utilization.
C16_ConservativeSelection ==
    \A c \in PrunerCalls :
        c.strategy = "conservative" => c.selected = Expired(c)

\* C16 witness: a conservative call selected a session of 0 messages that is
\* 10 days old and left an unprotected session of 150 hours alone.
C16_Witness ==
    \E c \in PrunerCalls :
        /\ c.strategy = "conservative"
        /\ \E id \in c.selected :
              CallAge(c, id) = 10 * HoursPerDay /\ c.before[id].content.messages = 0
        /\ \E id \in Unprotected(c) \ c.selected : CallAge(c, id) = 150

\* C17: a second prune('conservative'), made at once after a first one that
\* unlinked all it selected, with the directory as the first left it, evicts
\* nothing.
C17_ConservativeIdempotent ==
    \A i \in 1..(Len(prunerCalls) - 1) :
        LET first == prunerCalls[i]
            second == prunerCalls[i + 1]
        IN  (/\ first.op = "prune" /\ first.strategy = "conservative"
             /\ second.op = "prune" /\ second.strategy = "conservative"
             /\ first.unlinkErrors = 0
             /\ second.before = first.after
             /\ second.at = first.at)
                => second.selected = {} /\ second.after = second.before

\* C17 witness: the first of two successive conservative prunes evicted sessions.
C17_Witness ==
    \E i \in 1..(Len(prunerCalls) - 1) :
        /\ prunerCalls[i].op = "prune" /\ prunerCalls[i].strategy = "conservative"
        /\ prunerCalls[i + 1].op = "prune" /\ prunerCalls[i + 1].strategy = "conservative"
        /\ prunerCalls[i].unlinkErrors = 0
        /\ prunerCalls[i].deleted # {}

\* C18: dryRun(strategy) leaves the directory as it was, and the sessions it
\* lists are the sessions prune(strategy) unlinks on the same directory.
C18_DryRunMatchesPrune ==
    /\ \A c \in PrunerCalls :
          c.op = "dryRun" => c.after = c.before /\ c.deleted = {}
    /\ \A i \in 1..(Len(prunerCalls) - 1) :
          LET preview == prunerCalls[i]
              real == prunerCalls[i + 1]
          IN  (/\ preview.op = "dryRun" /\ real.op = "prune"
               /\ real.strategy = preview.strategy
               /\ real.before = preview.before /\ real.at = preview.at
               /\ real.unlinkErrors = 0)
                  => /\ real.deleted = preview.selected
                     /\ DOMAIN real.after = DOMAIN real.before \ preview.selected

\* C18 witness: a moderate dry run above 80% utilization listed sessions that
\* are not all expired, the directory still holds them, and the prune after it
\* unlinked them.
C18_Witness ==
    \E i \in 1..(Len(prunerCalls) - 1) :
        /\ prunerCalls[i].op = "dryRun" /\ prunerCalls[i].strategy = "moderate"
        /\ prunerCalls[i + 1].op = "prune" /\ prunerCalls[i + 1].strategy = "moderate"
        /\ CallUtil(prunerCalls[i]) > 8000
        /\ prunerCalls[i].selected \ Expired(prunerCalls[i]) # {}
        /\ prunerCalls[i].selected \subseteq DOMAIN prunerCalls[i + 1].before
        /\ prunerCalls[i + 1].deleted = prunerCalls[i].selected

\* C19: no Janitor is built and run on a configuration whose emergency
\* threshold does not exceed its alert threshold.
C19_ThresholdsOrdered ==
    (janitor.built /\ isRunning) =>
        janitor.monitoring.emergencyThreshold > janitor.monitoring.alertThreshold

----------------------------------------------------------------------------
(* Reports *)

\* C21: the success flag of an emergency report is true exactly when execute()
\* ended without an error and the utilization measured after the deletions is
\* strictly below the emergency threshold; it is false whenever execute()
\* ended with an error.
C21_SuccessFlag ==
    [][(lastOp' # lastOp /\ lastOp'.kind = "emergency")
        => /\ lastOp'.report.success
                <=> (/\ ~lastOp'.report.error
                     /\ getContextUsage(sessions', now').utilizationPercent
                            < emergencyThreshold * 100)
           /\ lastOp'.report.error => ~lastOp'.report.success]_vars

\* An emergency cleanup that ended with an error after it had measured a
\* utilization under the threshold.
C21_Witness ==
    /\ lastOp.kind = "emergency"
    /\ lastOp.report.error
    /\ lastOp.report.hasAfter
    /\ ~lastOp.report.success
    /\ getContextUsage(sessions, now).utilizationPercent < emergencyThreshold * 100

\* C22: a routine or emergency cleanup hands its caller a report with counts,
\* before and after usage and duration, also when archiving or deletion failed.
C22_AlwaysStructuredReport ==
    lastOp.kind \in {"routine", "emergency"}
        => /\ lastOp.report.returned
           /\ lastOp.report.hasCounts
           /\ lastOp.report.hasBefore
           /\ lastOp.report.hasAfter
           /\ lastOp.report.hasDuration

----------------------------------------------------------------------------
(* The archive index *)

\* C24: the archive index holds one entry per bundle: no two index entries
\* carry the same bundle name.
C24_OneEntryPerBundle ==
    \A i, j \in DOMAIN index :
        index[i].archiveName = index[j].archiveName => i = j

----------------------------------------------------------------------------
(* Manual cleanup against the background tick *)

\* C23: a manual cleanContext completes without error also when a background
\* tick has removed some of the sessions it selected: a session file that is
\* already absent is a no-op for the archive-then-delete sequence.
C23_AbsentSessionIsNoOp ==
    lastOp.kind = "manual" => (~lastOp.archiveThrew /\ lastOp.report.returned)

----------------------------------------------------------------------------
(* Retention *)

\* Where archiveSessions put the bundle an index entry names.
BundlePath(name) == IF compression THEN name ELSE StripTarGz(name)

SweptOld(e) == lastQuery.now - e.timestamp > retentionDays * HoursPerDay

\* C25: cleanupOldArchives removes exactly the bundles, and their index
\* entries, created more than retentionDays ago; every bundle created within
\* the retention window stays in place with its index entry.
C25_RetentionSweep ==
    lastQuery.op = "cleanupOldArchives"
        => \A i \in DOMAIN lastQuery.index :
              LET e == lastQuery.index[i]
                  listed == \E j \in DOMAIN index : index[j] = e
                  stored == BundlePath(e.archiveName) \in DOMAIN archiveDir
              IN  IF SweptOld(e) THEN ~listed /\ ~stored
                  ELSE listed /\ stored

----------------------------------------------------------------------------
(* The tick and the snapshot *)

\* C26: with autoCleanup disabled no tick calls the archiver, the pruner or
\* the emergency handler: a tick leaves the session store, the archives and
\* the index unchanged at any utilization.
C26_NoCleanupWhenDisabled ==
    [][(checkCount' # checkCount /\ ~watcherConfig.autoCleanup)
          => UNCHANGED <<sessions, archiveDir, index, lastOp, cleanupCount>>]_vars

\* A tick with autoCleanup disabled that measured a utilization at or above
\* the emergency threshold.
C26_Witness ==
    /\ ~watcherConfig.autoCleanup
    /\ checkCount > 0
    /\ lastCheck.utilizationPercent >= emergencyThreshold * 100
    /\ lastCheck.branch = "none"

\* C27: on a tick with autoCleanup enabled the watcher runs the emergency
\* handler exactly when the status of the snapshot it measured is CRITICAL,
\* routine pruning exactly when it is WARNING, and nothing otherwise.
C27_ActionAgreesWithStatus ==
    (checkCount > 0 /\ lastCheck.autoCleanup)
        => /\ lastCheck.branch = "emergency" <=> lastCheck.status = "CRITICAL"
           /\ lastCheck.branch = "routine" <=> lastCheck.status = "WARNING"

\* The status the breakpoints give a utilization percentage (in hundredths).
StatusOfPercent(util) ==
    IF util >= emergencyThreshold * 100 THEN "CRITICAL"
    ELSE IF util >= alertThreshold * 100 THEN "WARNING"
    ELSE IF util >= 60 * 100 THEN "MODERATE"
    ELSE "OK"

\* C28: in every snapshot the status is the one the breakpoints give the
\* snapshot's utilization percentage: CRITICAL at or above the emergency
\* threshold, else WARNING at or above the alert threshold, else MODERATE at or
\* above 60, else OK.
C28_StatusMatchesPercent ==
    lastQuery.op = "getContextUsage"
        => lastQuery.usage.status = StatusOfPercent(lastQuery.usage.utilizationPercent)

\* C30: a session file that cannot be read during a scan is left out of the
\* snapshot, with no entry and no cost, and every other session is reported.
C30_UnreadableLeftOut ==
    lastQuery.op = "getContextUsage"
        => LET good == DOMAIN sessions \ (lastQuery.unreadable \cup lastQuery.unstatable)
           IN  /\ IdsOf(SeqRange(lastQuery.usage.sessions)) = good
               /\ lastQuery.usage.currentTokens = TokensOf(sessions, good)

----------------------------------------------------------------------------
(* The recommended strategy *)

StrategyRank(strategy) ==
    CASE strategy = "conservative" -> 1
      [] strategy = "moderate" -> 2
      [] strategy = "aggressive" -> 3
      [] strategy = "emergency" -> 4

\* C29: getRecommendedStrategy is a monotone step function of utilization:
\* conservative below 75, moderate from 75 to below 85, aggressive from 85 to
\* below 95, emergency at 95 and above.
C29_RecommendedStrategy ==
    lastQuery.op = "getRecommendedStrategy"
        => LET util == lastQuery.utilizationPercent
               given == lastQuery.strategy
           IN  /\ given = "conservative" <=> util < 75 * 100
               /\ given = "moderate" <=> (75 * 100 <= util /\ util < 85 * 100)
               /\ given = "aggressive" <=> (85 * 100 <= util /\ util < 95 * 100)
               /\ given = "emergency" <=> util >= 95 * 100
               /\ \A lower \in UtilGrid :
                     lower <= util
                         => StrategyRank(getRecommendedStrategy(lower))
                                <= StrategyRank(given)

\* The pruner asked at exactly 75 percent.
C29_Witness ==
    /\ lastQuery.op = "getRecommendedStrategy"
    /\ lastQuery.utilizationPercent = 75 * 100
    /\ lastQuery.strategy = "moderate"

----------------------------------------------------------------------------
(* The estimate keeps no state *)

\* The entries of a snapshot taken without a read failure, each with the
\* content of the file it was made from.
CostsOf(q) ==
    IF q.op = "getContextUsage" /\ q.unreadable = {} /\ q.unstatable = {}
    THEN {[content |-> q.dir[s.sessionId].content, cost |-> s.tokenCount] :
             s \in SeqRange(q.usage.sessions)}
    ELSE {}

----------------------------------------------------------------------------
(* A failed unlink inside a batch *)

\* C32: when the unlink of one selected session fails, prune still unlinks
\* every other selected session, and sessionsPruned and tokensFreed count the
\* sessions actually deleted and nothing else.
C32_FailureSkipsOneSession ==
    \A i \in 1..Len(prunerCalls) :
        LET call == prunerCalls[i]
        IN  call.op = "prune"
              => /\ call.deleted = call.selected \ call.failed
                 /\ DOMAIN call.after = DOMAIN call.before \ call.deleted
                 /\ call.results.sessionsPruned = Cardinality(call.deleted)
                 /\ call.results.tokensFreed = TokensOf(call.before, call.deleted)

\* A prune in which one unlink failed and a session with a higher id was
\* deleted all the same.
C32_Witness ==
    \E i \in 1..Len(prunerCalls) :
        /\ prunerCalls[i].op = "prune"
        /\ prunerCalls[i].failed # {}
        /\ \E bad \in prunerCalls[i].failed, id \in prunerCalls[i].deleted : bad < id

----------------------------------------------------------------------------
(* Stopping the watcher *)

\* C33: after stop() has returned the timer starts no new tick (a stopped
\* watcher has no timer, and its check count moves only when start() is
\* called); stop() leaves the ticks in flight alone, and a tick that ends
\* while the watcher is stopped has carried out the cleanup its measurement
\* called for, archive and deletions included.
C33_StopLetsTickFinish ==
    /\ [](~isRunning => timers = {})
    /\ [][/\ (~isRunning /\ checkCount' # checkCount) => isRunning'
          /\ (isRunning /\ ~isRunning') => inFlight' = inFlight
          /\ (~isRunning /\ inFlight' < inFlight /\ lastCheck'.branch # "none")
                => /\ lastOp'.kind = lastCheck'.branch
                   /\ lastOp'.liveBefore = Cardinality(DOMAIN sessions)
                   /\ DOMAIN sessions' = DOMAIN sessions \ lastOp'.deleted
                   /\ lastOp'.archiveThrew => lastOp'.deleted = {}
                   /\ ~lastOp'.archiveThrew
                         => (lastOp'.archiveName = NullName
                             \/ lastOp'.archiveName \in DOMAIN archiveDir')]_vars

\* A tick that was in flight when stop() returned has since ended, having
\* archived and deleted sessions.
C33_Witness ==
    /\ lastCall.op = "stop"
    /\ lastCall.wasRunning
    /\ ~isRunning
    /\ ~lastCheck.watcherRunning
    /\ lastCheck.branch # "none"
    /\ lastOp.deleted # {}
    /\ lastOp.archiveName \in DOMAIN archiveDir

----------------------------------------------------------------------------
(* The index under archive operations *)

\* C34: the archive index is append-only under archive operations:
\* archiveSessions never removes or loses an entry recorded before, also when
\* the index file that exists cannot be read or parsed.
C34_IndexAppendOnly ==
    [][(budget' < budget /\ lastQuery'.op # "cleanupOldArchives")
          => /\ Len(index) <= Len(index')
             /\ SubSeq(index', 1, Len(index)) = index]_vars

\* C38: every entry of the archive index names a bundle that is in the
\* archive directory under exactly that name, for either setting of the
\* compression option; a retention sweep removes entry and bundle together.
C38_IndexedBundleExists ==
    \A i \in DOMAIN index : index[i].archiveName \in DOMAIN archiveDir

----------------------------------------------------------------------------
(* SessionAnalyzer: analyzeSession and its memoization cache *)

\* What JSON.parse gives for a session file, as far as the analyzer looks:
\*   "array"     messages is an array of short plain-text messages, the roles
\*               alternating from "user"
\*   "garbage"   the file is not JSON
\*   "absent"    an object without a messages property
\*   "falsy"     messages is 0, "" or false
\*   "noContent" messages is an array whose elements have no content
Shapes == {"array", "garbage", "absent", "falsy", "noContent"}

AnalyzerContents ==
    { [messages |-> 24, chars |-> 800, shape |-> "array"],
      [messages |-> 0, chars |-> 5, shape |-> "garbage"],
      [messages |-> 0, chars |-> 2, shape |-> "absent"],
      [messages |-> 0, chars |-> 14, shape |-> "falsy"],
      [messages |-> 2, chars |-> 40, shape |-> "noContent"] }

\* _calculateRecencyScore(lastActive)
calculateRecencyScore(lastActive, t) ==
    LET ageHours == t - lastActive
    IN IF ageHours < 1 THEN 100
       ELSE IF ageHours < 6 THEN 90
       ELSE IF ageHours < 24 THEN 80
       ELSE IF ageHours < 72 THEN 60
       ELSE IF ageHours < 168 THEN 40
       ELSE IF ageHours < 336 THEN 20
       ELSE 10

\* The messages the calculators iterate over: none when the guard
\* !sessionData.messages returns early.
messageCount(content) == IF content.shape = "array" THEN content.messages ELSE 0

\* _calculateEngagementScore(sessionData)
calculateEngagementScore(content) ==
    LET n == messageCount(content)
        userMessages == (n + 1) \div 2
        assistantMessages == n \div 2
    IN IF n = 0 THEN 0
       ELSE Min(100, Min(100, n * 5)
                     + (IF n > 20 THEN 10 ELSE 0)
                     + (IF n > 50 THEN 10 ELSE 0)
                     + (IF userMessages > 5 /\ assistantMessages > 5 THEN 15 ELSE 0))

\* _calculateConversationDepth(sessionData): short messages without code blocks
calculateConversationDepth(content) ==
    LET n == messageCount(content)
    IN IF n = 0 THEN 0 ELSE Min(100, Min(50, (n \div 2) * 5))

\* _calculateUniquenessScore(sessionData): the base score, no tool calls
calculateUniquenessScore(content) == 50

\* _calculateImportanceScore(factors), in hundredths of a point; tool usage,
\* complexity and error rate are 0 for the contents above.
calculateImportanceScore(content, lastActive, t) ==
    Min(10000, calculateRecencyScore(lastActive, t) * 25
               + calculateEngagementScore(content) * 20
               + calculateConversationDepth(content) * 25
               + calculateUniquenessScore(content) * 10)

\* _classifySession(score, factors)
classifySession(score) ==
    IF score >= 8000 THEN "critical"
    ELSE IF score >= 6000 THEN "important"
    ELSE IF score >= 4000 THEN "moderate"
    ELSE IF score >= 2000 THEN "low"
    ELSE "minimal"

\* Whether the try block of analyzeSession throws: the read fails, JSON.parse
\* fails, content.length of a message without content, or
\* sessionData.messages.length of an absent messages property.
analysisThrows(content, unreadable) ==
    \/ unreadable
    \/ content.shape \in {"garbage", "noContent", "absent"}

\* The catch block of analyzeSession.
ErrorAnalysis == [importanceScore |-> 0, classification |-> "unknown", error |-> TRUE]

\* The value analyzeSession resolves to when the cache has no entry.
analyze(content, lastActive, t, unreadable) ==
    IF analysisThrows(content, unreadable) THEN ErrorAnalysis
    ELSE LET score == calculateImportanceScore(content, lastActive, t)
         IN [importanceScore |-> score, classification |-> classifySession(score),
             error |-> FALSE]

cacheLimit == 1000

CacheKeys(cache) == {cache[i].key : i \in DOMAIN cache}

\* Map.set: a key already present keeps its place.
cacheSet(cache, key, analysis) ==
    IF key \in CacheKeys(cache)
    THEN [i \in DOMAIN cache |->
             IF cache[i].key = key THEN [key |-> key, analysis |-> analysis]
             ELSE cache[i]]
    ELSE Append(cache, [key |-> key, analysis |-> analysis])

\* Not the program: the newest entry is dropped on overflow.
limitCache_dropsNewest(cache) ==
    IF Len(cache) > cacheLimit THEN SubSeq(cache, 1, Len(cache) - 1) ELSE cache

\* if (size > 1000) delete(keys().next().value)
limitCache(cache) ==
    IF Len(cache) > cacheLimit THEN Tail(cache) ELSE cache

\* `${session.sessionId}-${session.lastActive.getTime()}`
cacheKey(session) == <<session.sessionId, session.lastActive>>

\* analyzeSession(session) up to its await: the cache lookup.
AnalyzeBegin(id) ==
    /\ budget > 0
    /\ id \in DOMAIN sessions
    /\ LET session == [sessionId |-> id, lastActive |-> sessions[id].mtime]
           hit == {i \in DOMAIN analysisCache : analysisCache[i].key = cacheKey(session)}
       IN IF hit # {}
          THEN /\ lastQuery' = [op |-> "analyzeSession", sessionId |-> id,
                                shape |-> "cached", unreadable |-> FALSE,
                                result |-> analysisCache[CHOOSE i \in hit : TRUE].analysis,
                                cacheBefore |-> analysisCache]
               /\ UNCHANGED pendingAnalyses
          ELSE /\ pendingAnalyses' = pendingAnalyses \cup {session}
               /\ UNCHANGED lastQuery
    /\ budget' = budget - 1
    /\ UNCHANGED <<sessions, now, archiveDir, index, compression, lastOp, evicted,
                   restoreResult, analysisCache>>
    /\ UNCHANGED <<watcherVars, counterVars, prunerCalls, janitor, pendingClean, lastCheck>>

\* analyzeSession(session) from the file read to its return.
AnalyzeFinish(session, fault) ==
    /\ session \in pendingAnalyses
    /\ LET id == session.sessionId
           unreadable == fault \/ id \notin DOMAIN sessions
           content == IF id \in DOMAIN sessions THEN sessions[id].content
                      ELSE [messages |-> 0, chars |-> 0, shape |-> "garbage"]
           analysis == analyze(content, session.lastActive, now, unreadable)
       IN /\ analysisCache' =
                 IF analysis.error THEN analysisCache
                 ELSE limitCache(cacheSet(analysisCache, cacheKey(session), analysis))
          /\ lastQuery' = [op |-> "analyzeSession", sessionId |-> id,
                           shape |-> content.shape, unreadable |-> unreadable,
                           result |-> analysis, cacheBefore |-> analysisCache]
    /\ pendingAnalyses' = pendingAnalyses \ {session}
    /\ UNCHANGED fsVars
    /\ UNCHANGED <<watcherVars, counterVars, prunerCalls, janitor, pendingClean, lastCheck>>

\* Analyses of sessions of earlier days, since pruned, that a long-running
\* analyzer still holds.
EarlierAnalyses(n) ==
    [i \in 1..n |-> [key |-> <<MaxSessions + i, 0>>,
                     analysis |-> [importanceScore |-> 750, classification |-> "minimal",
                                   error |-> FALSE]]]

AnalyzerDirChoices ==
    { d \in [SessionIds -> [content : AnalyzerContents, mtime : {StartHour - 2}]] :
         \A i \in 1..(MaxSessions - 1) : d[i].content.shape \in {"array", "falsy"} }

InitAnalyzer ==
    /\ sessions \in AnalyzerDirChoices
    /\ now = StartHour
    /\ compression = TRUE
    /\ budget = MaxAnalyzerOps
    /\ archiveDir = NoArchives
    /\ index = <<>>
    /\ lastOp = NoOp
    /\ evicted = {}
    /\ restoreResult = NoRestore
    /\ WatcherInit
    /\ watcherConfig = [enabled |-> TRUE, intervalMinutes |-> 5, autoCleanup |-> TRUE]
    /\ prunerCalls = <<>>
    /\ janitor = Built(NoSessionManagement)
    /\ pendingClean = NoPending
    /\ lastCheck = NoCheck
    /\ lastQuery = NoQuery
    /\ pendingAnalyses = {}
    /\ analysisCache \in {<<>>, EarlierAnalyses(cacheLimit - 2)}

NextAnalyzer ==
    \/ \E id \in SessionIds : AnalyzeBegin(id)
    \/ \E s \in pendingAnalyses, fault \in BOOLEAN : AnalyzeFinish(s, fault)
    \/ \E id \in SessionIds :
          SessionActivity(id, [messages |-> 24, chars |-> 800, shape |-> "array"])

SpecAnalyzer == InitAnalyzer /\ [][NextAnalyzer]_vars

\* C35: once an analyzeSession call has completed the cache holds at most
\* 1000 entries, and a call that overflows it evicts the entry inserted
\* earliest, keeping the others in their order with the new one last.
C35_CacheBounded ==
    /\ [](Len(analysisCache) <= cacheLimit)
    /\ [][\A s \in pendingAnalyses \ pendingAnalyses' :
             (/\ ~lastQuery'.result.error
              /\ Len(analysisCache) = cacheLimit
              /\ cacheKey(s) \notin CacheKeys(analysisCache))
                => analysisCache' =
                      Append(Tail(analysisCache),
                             [key |-> cacheKey(s), analysis |-> lastQuery'.result])]_vars

\* A call completed on a full cache: its analysis is the newest entry and the
\* oldest entry of before is gone.
C35_Witness ==
    /\ lastQuery.op = "analyzeSession"
    /\ Len(lastQuery.cacheBefore) = cacheLimit
    /\ Len(analysisCache) = cacheLimit
    /\ analysisCache[cacheLimit].key[1] = lastQuery.sessionId
    /\ lastQuery.cacheBefore[1].key \notin CacheKeys(analysisCache)

\* C36: for unreadable, unparsable or structurally malformed session content
\* analyzeSession returns importanceScore 0 with classification 'unknown'
\* instead of throwing.
C36_MalformedIsUnknown ==
    (/\ lastQuery.op = "analyzeSession"
     /\ (lastQuery.unreadable
         \/ lastQuery.shape \in {"garbage", "absent", "falsy", "noContent"}))
        => /\ lastQuery.result.importanceScore = 0
           /\ lastQuery.result.classification = "unknown"

----------------------------------------------------------------------------
(* Exceptions during a tick *)

\* C37: an exception raised during a tick never stops the watcher: the tick
\* ends leaving isRunning, the interval id and the timers of the event loop as
\* they were, so a running watcher keeps its timer and later ticks still occur.
C37_TickErrorKeepsWatcher ==
    /\ [](isRunning => intervalId \in timers)
    /\ [][inFlight' < inFlight
            => /\ isRunning' = isRunning
               /\ intervalId' = intervalId
               /\ timers' = timers]_vars

\* The archiver threw inside a tick of a running watcher; the watcher still
\* runs with its timer, and another tick is under way.
C37_Witness ==
    /\ lastOp.kind \in {"routine", "emergency"}
    /\ lastOp.archiveThrew
    /\ lastCheck.watcherRunning
    /\ isRunning
    /\ intervalId \in timers
    /\ inFlight > 0

----------------------------------------------------------------------------
(* pre-start-cleanup.sh *)

MAX_SESSION_AGE_DAYS == 7
MAX_DELETE_LIMIT == 1000

\* find -mtime +n: the file's age in whole days exceeds n
mtimeOver(dir, t, n) ==
    {id \in DOMAIN dir : (t - dir[id].mtime) \div HoursPerDay > n}

\* The files find lists first when the lines are sorted by modification time.
oldestOf(dir) ==
    {id \in DOMAIN dir : \A other \in DOMAIN dir : dir[id].mtime <= dir[other].mtime}

ScriptExit(dir, copied, deleted, status) ==
    [sessions |-> [id \in DOMAIN dir \ deleted |-> dir[id]],
     copied |-> copied, archived |-> {}, deleted |-> deleted, status |-> status]

\* One run of the script over the session directory.  The script runs under
\* set -e, and each of its three loops counts with ((N++)): that command
\* returns status 1 when N was 0, so a loop ends the script in its first
\* iteration, after the cp or the rm of the file find listed first (first1,
\* first7 and firstOldest stand for that file).  tar runs after the copy loop
\* and is never reached with a file copied.
preStartCleanup(dir, t, maxSessions, archiving, first1, first7, firstOldest) ==
    LET count == Cardinality(DOMAIN dir)
        old1 == mtimeOver(dir, t, 1)
        old7 == mtimeOver(dir, t, MAX_SESSION_AGE_DAYS)
    IN IF count < maxSessions THEN ScriptExit(dir, {}, {}, 0)
       ELSE IF archiving /\ old1 # {} THEN ScriptExit(dir, {first1}, {}, 1)
       ELSE IF Cardinality(old7) > MAX_DELETE_LIMIT THEN ScriptExit(dir, {}, {}, 1)
       ELSE IF old7 # {} THEN ScriptExit(dir, {}, {first7}, 1)
       ELSE IF count > maxSessions THEN ScriptExit(dir, {}, {firstOldest}, 1)
       ELSE ScriptExit(dir, {}, {}, 0)

\* find "$ARCHIVE_DIR" -name "*.tar.gz" -mtime +30 -delete, at the end of a
\* run that got that far with archiving enabled.
scriptSweep(adir, t, archiving, status) ==
    IF archiving /\ status = 0
    THEN [n \in {m \in DOMAIN adir : ~(m.targz /\ t \div HoursPerDay - m.day > 30)}
             |-> adir[n]]
    ELSE adir

\* The file a loop of the script meets first: any of the set find lists.
FirstOf(S) == IF S = {} THEN {0} ELSE S

PreStartCleanup(maxSessions, archiving) ==
    /\ budget > 0
    /\ \E first1 \in FirstOf(mtimeOver(sessions, now, 1)),
          first7 \in FirstOf(mtimeOver(sessions, now, MAX_SESSION_AGE_DAYS)),
          firstOldest \in FirstOf(oldestOf(sessions)) :
          LET run == preStartCleanup(sessions, now, maxSessions, archiving,
                                     first1, first7, firstOldest)
          IN /\ sessions' = run.sessions
             /\ evicted' = evicted \cup {[id |-> id, content |-> sessions[id].content] :
                                           id \in run.deleted}
             /\ archiveDir' = scriptSweep(archiveDir, now, archiving, run.status)
             /\ lastQuery' = [op |-> "preStartCleanup", archiving |-> archiving,
                              maxSessions |-> maxSessions, copied |-> run.copied,
                              archived |-> run.archived, deleted |-> run.deleted,
                              status |-> run.status]
    /\ budget' = budget - 1
    /\ UNCHANGED <<now, index, compression, lastOp, restoreResult>>
    /\ UNCHANGED <<watcherVars, counterVars, analyzerVars, prunerCalls, janitor,
                   pendingClean, lastCheck>>

ScriptContent == [messages |-> 2, chars |-> 80000]

ScriptDirChoices ==
    UNION {[1..n -> [content : {ScriptContent},
                     mtime : {StartHour - 3, StartHour - 72, StartHour - 240}]] :
              n \in 0..MaxSessions}

InitScript ==
    /\ sessions \in ScriptDirChoices
    /\ now = StartHour
    /\ compression = TRUE
    /\ budget = MaxScriptOps
    /\ archiveDir = NoArchives
    /\ index = <<>>
    /\ lastOp = NoOp
    /\ evicted = {}
    /\ restoreResult = NoRestore
    /\ WatcherInit
    /\ ApiInit
    /\ watcherConfig = [enabled |-> TRUE, intervalMinutes |-> 5, autoCleanup |-> TRUE]

NextScript ==
    \/ \E maxSessions \in 1..MaxSessions, archiving \in BOOLEAN :
          PreStartCleanup(maxSessions, archiving)
    \/ \E id \in SessionIds : SessionActivity(id, ScriptContent)

SpecScript == InitScript /\ [][NextScript]_vars

\* C39: with archiving enabled, every session file a run of the pre-start
\* cleanup script deletes, in its age-based phase or its delete-oldest phase,
\* is in the archive that run created.
C39_ScriptArchivesBeforeDelete ==
    (lastQuery.op = "preStartCleanup" /\ lastQuery.archiving)
        => lastQuery.deleted \subseteq lastQuery.archived

====
